---- MODULE Spec2Model ----
(***************************************************************************)
(* Job scraper: ingestion and reconciliation pipeline.                     *)
(*                                                                         *)
(* Text is modelled as a sequence of one-character strings, so that        *)
(* strip(), lower(), slicing, substring search and the regular             *)
(* expressions of the source are computed, not assumed.  Python's None is  *)
(* the value None below (a sequence that is no text); an SQL NULL in an    *)
(* integer column is NULL and an integer n in such a column is <<n>>.      *)
(***************************************************************************)
EXTENDS Integers, Sequences, FiniteSets, TLC

VARIABLES
    companies,   \* table companies: a set of rows
    jobs,        \* table jobs: a set of rows
    jobs_raw,    \* table jobs_raw: the audit trail, a sequence of rows
    now,         \* the store's clock (CURRENT_TIMESTAMP, whole seconds)
    last,        \* the last store operation and its arguments (history)
    run,         \* the orchestrator run: script, position, row outcomes
    probe        \* a pure function under test: its arguments and result

vars == <<companies, jobs, jobs_raw, now, last, run, probe>>

(***************************************************************************)
(* Python values and text primitives                                       *)
(***************************************************************************)
None == <<"None">>
NULL == <<>>

Truthy(x) == x # None /\ x # <<>>

\* Python's  x or d
OrElse(x, d) == IF Truthy(x) THEN x ELSE d

UPPER == <<"A","B","C","D","E","F","G","H","I","J","K","L","M",
           "N","O","P","Q","R","S","T","U","V","W","X","Y","Z">>
LOWER == <<"a","b","c","d","e","f","g","h","i","j","k","l","m",
           "n","o","p","q","r","s","t","u","v","w","x","y","z">>
DIGITS == <<"0","1","2","3","4","5","6","7","8","9">>

Range(f) == { f[i] : i \in DOMAIN f }

UpperSet == Range(UPPER)
LowerSet == Range(LOWER)
DigitSet == Range(DIGITS)
WordSet == UpperSet \cup LowerSet \cup DigitSet \cup {"_"}
SchemeSet == UpperSet \cup LowerSet \cup DigitSet \cup {"+", "-", "."}

\* str.lower() of one character
LowerChar(c) ==
    CASE c = "A" -> "a" [] c = "B" -> "b" [] c = "C" -> "c" [] c = "D" -> "d"
      [] c = "E" -> "e" [] c = "F" -> "f" [] c = "G" -> "g" [] c = "H" -> "h"
      [] c = "I" -> "i" [] c = "J" -> "j" [] c = "K" -> "k" [] c = "L" -> "l"
      [] c = "M" -> "m" [] c = "N" -> "n" [] c = "O" -> "o" [] c = "P" -> "p"
      [] c = "Q" -> "q" [] c = "R" -> "r" [] c = "S" -> "s" [] c = "T" -> "t"
      [] c = "U" -> "u" [] c = "V" -> "v" [] c = "W" -> "w" [] c = "X" -> "x"
      [] c = "Y" -> "y" [] c = "Z" -> "z" [] OTHER -> c

\* str.lower()
Lower(s) == [i \in DOMAIN s |-> LowerChar(s[i])]

IsSpace(c) == c \in {" ", "\t", "\n", "\r"}

\* a character of the class \w
IsWordChar(c) == c \in WordSet

\* str.lstrip()
RECURSIVE LStrip(_)
LStrip(s) == IF s # <<>> /\ IsSpace(s[1]) THEN LStrip(Tail(s)) ELSE s

\* str.rstrip()
RECURSIVE RStrip(_)
RStrip(s) ==
    IF s # <<>> /\ IsSpace(s[Len(s)]) THEN RStrip(SubSeq(s, 1, Len(s) - 1)) ELSE s

\* str.strip()
Strip(s) == RStrip(LStrip(s))

\* s[:n]
Prefix(s, n) == IF Len(s) <= n THEN s ELSE SubSeq(s, 1, n)

\* the positions at which needle occurs in hay
Occurrences(hay, needle) ==
    { i \in 1..(Len(hay) - Len(needle) + 1) :
        SubSeq(hay, i, i + Len(needle) - 1) = needle }

\* needle in hay
Contains(hay, needle) == Occurrences(hay, needle) # {}

\* hay.startswith(needle)
StartsWith(hay, needle) ==
    Len(needle) <= Len(hay) /\ SubSeq(hay, 1, Len(needle)) = needle

\* \b at the gap before position i of s (i in 1..Len(s)+1)
Boundary(s, i) ==
    LET before == i > 1 /\ IsWordChar(s[i - 1])
        after  == i <= Len(s) /\ IsWordChar(s[i])
    IN  before # after

\* s.find(sep) from position i on, counted from 1; 0 when sep is absent
RECURSIVE Find(_, _, _)
Find(s, sep, i) ==
    IF i > Len(s) THEN 0
    ELSE IF s[i] = sep THEN i
    ELSE Find(s, sep, i + 1)

\* s.split(sep) on a one-character separator
RECURSIVE Split(_, _)
Split(s, sep) ==
    IF Find(s, sep, 1) = 0 THEN <<s>>
    ELSE <<SubSeq(s, 1, Find(s, sep, 1) - 1)>>
         \o Split(SubSeq(s, Find(s, sep, 1) + 1, Len(s)), sep)

IsDigits(s) == Len(s) > 0 /\ \A i \in DOMAIN s : s[i] \in DigitSet

DigitValue(c) == (CHOOSE i \in DOMAIN DIGITS : DIGITS[i] = c) - 1

\* int(s) of a string of digits
RECURSIVE ToInt(_)
ToInt(s) ==
    IF Len(s) = 0 THEN 0
    ELSE 10 * ToInt(SubSeq(s, 1, Len(s) - 1)) + DigitValue(s[Len(s)])

\* the decimal digits of n, zero-padded to at least w characters
RECURSIVE Digits(_, _)
Digits(n, w) ==
    IF n < 10 /\ w <= 1 THEN <<DIGITS[n + 1]>>
    ELSE Digits(n \div 10, w - 1) \o <<DIGITS[(n % 10) + 1]>>

\* the cut of title[:255] and canonical[:255]
MaxText == 255

(***************************************************************************)
(* tools/normalize.py                                                      *)
(***************************************************************************)
CITIES ==
    { <<"M","u","m","b","a","i">>,
      <<"B","o","m","b","a","y">>,
      <<"N","a","v","i"," ","M","u","m","b","a","i">>,
      <<"T","h","a","n","e">>,
      <<"B","e","n","g","a","l","u","r","u">>,
      <<"B","a","n","g","a","l","o","r","e">>,
      <<"P","u","n","e">>,
      <<"H","y","d","e","r","a","b","a","d">>,
      <<"C","h","e","n","n","a","i">>,
      <<"K","o","l","k","a","t","a">>,
      <<"N","e","w"," ","D","e","l","h","i">>,
      <<"D","e","l","h","i">>,
      <<"N","C","R">>,
      <<"G","u","r","u","g","r","a","m">>,
      <<"G","u","r","g","a","o","n">>,
      <<"N","o","i","d","a">>,
      <<"G","r","e","a","t","e","r"," ","N","o","i","d","a">>,
      <<"A","h","m","e","d","a","b","a","d">>,
      <<"V","a","d","o","d","a","r","a">>,
      <<"S","u","r","a","t">>,
      <<"I","n","d","o","r","e">>,
      <<"J","a","i","p","u","r">>,
      <<"N","a","g","p","u","r">>,
      <<"M","y","s","u","r","u">>,
      <<"M","y","s","o","r","e">>,
      <<"K","o","c","h","i">>,
      <<"C","o","c","h","i","n">>,
      <<"C","o","i","m","b","a","t","o","r","e">>,
      <<"T","r","i","v","a","n","d","r","u","m">>,
      <<"T","h","i","r","u","v","a","n","a","n","t","h","a","p","u","r","a","m">>,
      <<"V","i","s","a","k","h","a","p","a","t","n","a","m">>,
      <<"V","i","z","a","g">>,
      <<"G","a","n","d","h","i","n","a","g","a","r">>,
      <<"M","o","h","a","l","i">> }

STATES ==
    { <<"M","a","h","a","r","a","s","h","t","r","a">>,
      <<"K","a","r","n","a","t","a","k","a">>,
      <<"T","e","l","a","n","g","a","n","a">>,
      <<"T","a","m","i","l"," ","N","a","d","u">>,
      <<"U","t","t","a","r"," ","P","r","a","d","e","s","h">>,
      <<"H","a","r","y","a","n","a">>,
      <<"W","e","s","t"," ","B","e","n","g","a","l">>,
      <<"D","e","l","h","i">>,
      <<"G","u","j","a","r","a","t">>,
      <<"K","e","r","a","l","a">>,
      <<"R","a","j","a","s","t","h","a","n">>,
      <<"A","n","d","h","r","a"," ","P","r","a","d","e","s","h">>,
      <<"M","a","d","h","y","a"," ","P","r","a","d","e","s","h">>,
      <<"P","u","n","j","a","b">>,
      <<"O","d","i","s","h","a">>,
      <<"B","i","h","a","r">> }

\* the sixth character of "remote—india" is the one character U+2014
INDIA_PHRASES ==
    { <<"i","n","d","i","a">>,
      <<"p","a","n"," ","i","n","d","i","a">>,
      <<"r","e","m","o","t","e"," ","-"," ","i","n","d","i","a">>,
      <<"r","e","m","o","t","e","U+2014","i","n","d","i","a">>,
      <<"r","e","m","o","t","e","/","i","n","d","i","a">>,
      <<"r","e","m","o","t","e"," ","i","n"," ","i","n","d","i","a">>,
      <<"a","c","r","o","s","s"," ","i","n","d","i","a">>,
      <<"m","u","l","t","i","p","l","e"," ","l","o","c","a","t","i","o","n","s"," ","-"," ","i","n","d","i","a">>,
      <<"m","u","l","t","i","p","l","e"," ","l","o","c","a","t","i","o","n","s"," ","i","n"," ","i","n","d","i","a">>,
      <<"a","n","y","w","h","e","r","e"," ","i","n"," ","i","n","d","i","a">> }

\* re.search(rf"\b{re.escape(word)}\b", hay, flags=re.I) is not None
_contains_word(hay, word) ==
    \E i \in Occurrences(Lower(hay), Lower(word)) :
        Boundary(hay, i) /\ Boundary(hay, i + Len(word))

\* s up to the first sep (all of s when sep is absent)
Before(s, sep) ==
    IF Find(s, sep, 1) = 0 THEN s ELSE SubSeq(s, 1, Find(s, sep, 1) - 1)

\* s after the first sep (empty when sep is absent)
After(s, sep) ==
    IF Find(s, sep, 1) = 0 THEN <<>> ELSE SubSeq(s, Find(s, sep, 1) + 1, Len(s))

\* the scheme urlparse splits off: letters, digits, "+", "-", "." before a ":"
HasScheme(u) ==
    LET head == Before(u, ":")
    IN  /\ Find(u, ":", 1) # 0
        /\ Len(head) > 0
        /\ head[1] \in UpperSet \cup LowerSet
        /\ \A i \in DOMAIN head : head[i] \in SchemeSet

\* urlparse(u).path
UrlPath(u) ==
    LET noscheme == IF HasScheme(u) THEN After(u, ":") ELSE u
        nofrag   == Before(noscheme, "#")
        noquery  == Before(nofrag, "?")
    IN  IF StartsWith(noquery, <<"/", "/">>)
        THEN LET rest == SubSeq(noquery, 3, Len(noquery))
             IN  SubSeq(rest, Len(Before(rest, "/")) + 1, Len(rest))
        ELSE noquery

\* urlparse(u).query
UrlQuery(u) ==
    LET noscheme == IF HasScheme(u) THEN After(u, ":") ELSE u
    IN  After(Before(noscheme, "#"), "?")

\* unquote of "+" in a query value (the inputs hold no %xx escapes)
PlusToSpace(s) == [i \in DOMAIN s |-> IF s[i] = "+" THEN " " ELSE s[i]]

\* the values of parse_qs(query): pairs split at "&", each at its first "=",
\* pairs without "=" and pairs with a blank value dropped
QueryValues(q) ==
    LET pairs == Split(q, "&")
    IN  { PlusToSpace(After(pairs[i], "=")) :
            i \in { k \in DOMAIN pairs :
                      /\ \E j \in DOMAIN pairs[k] : pairs[k][j] = "="
                      /\ After(pairs[k], "=") # <<>> } }

_apply_url_implies_india(apply_url) ==
    IF ~Truthy(apply_url) THEN FALSE
    ELSE \/ \E v \in QueryValues(UrlQuery(apply_url)) :
               Contains(Lower(v), <<"i","n","d","i","a">>)
         \/ _contains_word(UrlPath(apply_url), <<"I","n","d","i","a">>)

\* for comparison: a gate that lets a posting without location text through
india_location_ok_Lenient(loc, apply_url) ==
    \/ ~Truthy(loc)
    \/ Strip(loc) = <<>>
    \/ _apply_url_implies_india(apply_url)
    \/ \E w \in CITIES \cup STATES : _contains_word(Strip(loc), w)

india_location_ok(loc, apply_url) ==
    LET s  == Strip(loc)
        sl == Lower(s)
    IN  \/ /\ Truthy(loc)
           /\ \/ \E phrase \in INDIA_PHRASES : Contains(sl, phrase)
              \/ StartsWith(sl, <<"i","n","-">>)
              \/ _contains_word(s, <<"I","N">>)
              \/ _contains_word(s, <<"I","N","D">>)
              \/ \E w \in CITIES \cup STATES : _contains_word(s, w)
        \/ _apply_url_implies_india(apply_url)

IsLeap(y) == (y % 4 = 0 /\ y % 100 # 0) \/ y % 400 = 0

DaysInMonth(y, m) ==
    IF m = 2 THEN (IF IsLeap(y) THEN 29 ELSE 28)
    ELSE IF m \in {4, 6, 9, 11} THEN 30 ELSE 31

\* datetime.strptime(text, "%Y-%m-%d"): <<y, m, d>>, or NULL for ValueError
ParseYMD(text) ==
    LET p == Split(text, "-")
    IN  IF /\ Len(p) = 3
           /\ IsDigits(p[1]) /\ Len(p[1]) = 4
           /\ IsDigits(p[2]) /\ Len(p[2]) <= 2
           /\ IsDigits(p[3]) /\ Len(p[3]) <= 2
           /\ ToInt(p[1]) >= 1
           /\ ToInt(p[2]) \in 1..12
           /\ ToInt(p[3]) \in 1..DaysInMonth(ToInt(p[1]), ToInt(p[2]))
        THEN <<ToInt(p[1]), ToInt(p[2]), ToInt(p[3])>>
        ELSE NULL

\* datetime.strptime(text, "%H:%M:%S"): <<h, m, s>>, or NULL
ParseHMS(text) ==
    LET p == Split(text, ":")
    IN  IF /\ Len(p) = 3
           /\ \A i \in 1..3 : IsDigits(p[i]) /\ Len(p[i]) <= 2
           /\ ToInt(p[1]) <= 23 /\ ToInt(p[2]) <= 59 /\ ToInt(p[3]) <= 61
        THEN <<ToInt(p[1]), ToInt(p[2]), ToInt(p[3])>>
        ELSE NULL

\* the loop over date_formats: the first format that parses wins.  Modelled
\* are "%Y-%m-%d" and "%Y-%m-%dT%H:%M:%S%z" with the offset written "Z"
\* (which %z reads as UTC, before the "...SZ" format is tried); the postings
\* of this model carry no text in one of the other formats.
\* <<y, m, d, H, M, S, aware>> or NULL.
ParsePosted(posted_at) ==
    IF ~Truthy(posted_at) THEN NULL
    ELSE IF ParseYMD(posted_at) # NULL
    THEN ParseYMD(posted_at) \o <<0, 0, 0, FALSE>>
    ELSE LET date == Before(posted_at, "T")
             rest == After(posted_at, "T")
         IN  IF /\ Len(rest) > 0 /\ rest[Len(rest)] = "Z"
                /\ ParseYMD(date) # NULL
                /\ ParseHMS(SubSeq(rest, 1, Len(rest) - 1)) # NULL
             THEN ParseYMD(date) \o ParseHMS(SubSeq(rest, 1, Len(rest) - 1)) \o <<TRUE>>
             ELSE NULL

\* datetime.isoformat()
IsoFormat(t) ==
    Digits(t[1], 4) \o <<"-">> \o Digits(t[2], 2) \o <<"-">> \o Digits(t[3], 2)
    \o <<"T">> \o Digits(t[4], 2) \o <<":">> \o Digits(t[5], 2)
    \o <<":">> \o Digits(t[6], 2)
    \o (IF t[7] THEN <<"+","0","0",":","0","0">> ELSE <<>>)

\* the key built at normalize.py:122-125
canonical_of(title, location, req_id) ==
    LET t == Strip(OrElse(title, <<>>))
        l == OrElse(Strip(OrElse(location, <<>>)), None)
        r == OrElse(Strip(OrElse(req_id, <<>>)), None)
    IN  Strip(Lower(t \o <<":", ":">> \o OrElse(l, <<>>) \o <<":", ":">> \o OrElse(r, <<>>)))

\* normalize_job(...)[1]: the record
normalize_job(company_id, title, apply_url, location, description, req_id, posted_at) ==
    LET t == Strip(OrElse(title, <<>>))
        l == OrElse(Strip(OrElse(location, <<>>)), None)
        r == OrElse(Strip(OrElse(req_id, <<>>)), None)
        canonical == canonical_of(title, location, req_id)
        posted == ParsePosted(posted_at)
    IN  [ company_id       |-> company_id,
          title            |-> IF Truthy(t) THEN Prefix(t, MaxText) ELSE None,
          apply_url        |-> apply_url,
          team             |-> None,
          location_city    |-> l,
          location_country |-> IF india_location_ok(l, apply_url)
                               THEN <<"I","n","d","i","a">> ELSE None,
          description      |-> OrElse(description, None),
          req_id           |-> r,
          posted_at        |-> IF posted # NULL THEN IsoFormat(posted) ELSE None,
          canonical_key    |-> IF Truthy(canonical) THEN Prefix(canonical, MaxText) ELSE None ]

(***************************************************************************)
(* tools/scoring.py                                                        *)
(***************************************************************************)
Max2(a, b) == IF a >= b THEN a ELSE b
Min2(a, b) == IF a <= b THEN a ELSE b

\* re.search(r"\bword\b", t): word as a whole word of t (t already lowered)
WordIn(t, word) ==
    \E i \in Occurrences(t, word) : Boundary(t, i) /\ Boundary(t, i + Len(word))

\* TITLE_WEIGHTS: each pattern as a predicate on the lowered title, with its weight
TitleMatches(t) ==
    { <<WordIn(t, <<"q","u","a","n","t">>)
          \/ WordIn(t, <<"q","u","a","n","t","i","t","a","t","i","v","e">>), 25>>,
      <<Contains(t, <<"m","a","c","h","i","n","e"," ","l","e","a","r","n","i","n","g">>)
          \/ Contains(t, <<"m","l"," ","e","n","g","i","n","e","e","r">>), 22>>,
      <<WordIn(t, <<"d","a","t","a"," ","s","c","i","e","n","t","i","s","t">>), 20>>,
      <<WordIn(t, <<"d","a","t","a"," ","e","n","g","i","n","e","e","r">>)
          \/ Contains(t, <<"d","a","t","a"," ","p","l","a","t","f","o","r","m">>), 18>>,
      <<Contains(t, <<"r","i","s","k"," ","a","n","a","l","y","t","i","c","s">>)
          \/ Contains(t, <<"r","i","s","k"," ","m","o","d","e","l">>)
          \/ Contains(t, <<"r","i","s","k"," ","m","a","n","a","g","e","m","e","n","t">>)
          \/ Contains(t, <<"m","o","d","e","l"," ","v","a","l","i","d","a","t","i","o","n">>)
          \/ Contains(t, <<"m","o","d","e","l"," ","r","i","s","k">>), 16>>,
      <<Contains(t, <<"a","n","a","l","y","t","i","c","s">>)
          \/ Contains(t, <<"b","u","s","i","n","e","s","s"," ","i","n","t","e","l","l","i","g","e","n","c","e">>)
          \/ Contains(t, <<"b","i"," ">>), 12>> }

SKILL_TOKENS ==
    { <<"p","y","t","h","o","n">>,
      <<"p","a","n","d","a","s">>,
      <<"n","u","m","p","y">>,
      <<"s","c","i","k","i","t">>,
      <<"s","k","l","e","a","r","n">>,
      <<"p","y","t","o","r","c","h">>,
      <<"t","e","n","s","o","r","f","l","o","w">>,
      <<"s","q","l">>,
      <<"p","y","s","p","a","r","k">>,
      <<"s","p","a","r","k">>,
      <<"a","w","s">>,
      <<"g","c","p">>,
      <<"a","z","u","r","e">>,
      <<"a","i","r","f","l","o","w">>,
      <<"k","a","f","k","a">>,
      <<"h","i","v","e">>,
      <<"t","i","m","e"," ","s","e","r","i","e","s">>,
      <<"f","e","a","t","u","r","e"," ","e","n","g","i","n","e","e","r","i","n","g">>,
      <<"n","l","p">>,
      <<"l","l","m">>,
      <<"x","g","b","o","o","s","t">>,
      <<"c","a","t","b","o","o","s","t">>,
      <<"s","t","a","t","i","s","t","i","c","s">>,
      <<"p","r","o","b","a","b","i","l","i","t","y">>,
      <<"r","e","g","r","e","s","s","i","o","n">>,
      <<"c","l","a","s","s","i","f","i","c","a","t","i","o","n">>,
      <<"c","l","u","s","t","e","r","i","n","g">> }

_match_weight(title) ==
    LET t    == Lower(OrElse(title, <<>>))
        hits == { m[2] : m \in { x \in TitleMatches(t) : x[1] } }
        best == IF hits = {} THEN 0 ELSE CHOOSE w \in hits : \A v \in hits : v <= w
    IN  Min2(best, 25)

RECURSIVE Pow(_, _)
Pow(b, e) == IF e = 0 THEN 1 ELSE b * Pow(b, e - 1)

\* int(8 * math.log2(n)) for 1 <= n <= 13: the largest k with 2^k <= n^8
Log2Times8(n) == CHOOSE k \in 0..30 : Pow(2, k) <= Pow(n, 8) /\ (k = 30 \/ Pow(n, 8) < Pow(2, k + 1))

\* min(30, int(8 * math.log2(1 + hits))); from 1 + hits = 14 on the curve is
\* above 30 (8 * log2(14) = 30.4...) and the minimum is 30
_skills_score(desc) ==
    LET d    == Lower(OrElse(desc, <<>>))
        hits == Cardinality({ s \in SKILL_TOKENS : Contains(d, s) })
    IN  IF 1 + hits >= 14 THEN 30 ELSE Min2(30, Log2Times8(1 + hits))

_exp_score(min_exp, max_exp) ==
    IF min_exp = NULL /\ max_exp = NULL THEN 6
    ELSE LET lo == IF min_exp # NULL THEN min_exp[1] ELSE 0
             hi == IF max_exp # NULL THEN max_exp[1] ELSE 99
         IN  IF lo <= 3 /\ hi >= 1 THEN 10
             ELSE IF lo <= 4 /\ hi >= 0 THEN 6
             ELSE 0

_geo_score(location, remote) ==
    LET s == Lower(location)
    IN  IF remote # NULL /\ remote[1] # 0 THEN 20
        ELSE IF ~Truthy(location) THEN 8
        ELSE IF \E k \in { <<"m","u","m","b","a","i">>, <<"b","e","n","g","a","l","u","r","u">>,
                           <<"b","a","n","g","a","l","o","r","e">>,
                           <<"h","y","d","e","r","a","b","a","d">> } : Contains(s, k)
        THEN 18
        ELSE IF \E k \in { <<"p","u","n","e">>, <<"c","h","e","n","n","a","i">>,
                           <<"g","u","r","u","g","r","a","m">>, <<"g","u","r","g","a","o","n">>,
                           <<"n","o","i","d","a">>, <<"i","n","d","i","a">> } : Contains(s, k)
        THEN 14
        ELSE 4

\* dt.date(y, m, d) as a day number (days since 1970-01-01)
DayNumber(y, m, d) ==
    LET yy  == IF m <= 2 THEN y - 1 ELSE y
        era == yy \div 400
        yoe == yy - era * 400
        mp  == IF m > 2 THEN m - 3 ELSE m + 9
        doy == (153 * mp + 2) \div 5 + d - 1
        doe == yoe * 365 + yoe \div 4 - yoe \div 100 + doy
    IN  era * 146097 + doe - 719468

\* dt.date.today(): the day the model's clock starts in
Today == <<2025, 1, 31>>

_recency_score(posted_at) ==
    IF ~Truthy(posted_at) THEN 5
    ELSE LET p == Split(Prefix(posted_at, 10), "-")
         IN  IF /\ Len(p) = 3
                /\ \A i \in 1..3 : IsDigits(p[i])
                /\ ToInt(p[1]) \in 1..9999
                /\ ToInt(p[2]) \in 1..12
                /\ ToInt(p[3]) \in 1..DaysInMonth(ToInt(p[1]), ToInt(p[2]))
             THEN LET days == DayNumber(Today[1], Today[2], Today[3])
                              - DayNumber(ToInt(p[1]), ToInt(p[2]), ToInt(p[3]))
                  IN  IF days <= 7 THEN 10
                      ELSE IF days <= 14 THEN 8
                      ELSE IF days <= 30 THEN 6
                      ELSE 2
             ELSE 5

\* for comparison: no title is penalized
_seniority_penalty_None(title) == 0

_seniority_penalty(title) ==
    LET t == Lower(OrElse(title, <<>>))
    IN  IF \E x \in { <<"m","a","n","a","g","e","r">>, <<"l","e","a","d">>, <<"v","p">>,
                      <<"d","i","r","e","c","t","o","r">>, <<"p","r","i","n","c","i","p","a","l">>,
                      <<"h","e","a","d">>, <<"s","e","n","i","o","r">> } : Contains(t, x)
        THEN 8
        ELSE IF Contains(t, <<"i","n","t","e","r","n">>) \/ Contains(t, <<"t","r","a","i","n","e","e">>)
        THEN 12
        ELSE 0

\* the sum of the components, before the clamp
RawScore(job) ==
    _match_weight(job.title)
    + _skills_score(OrElse(job.description, <<>>))
    + _exp_score(job.min_exp, job.max_exp)
    + _geo_score(OrElse(job.location_city, <<>>), job.remote)
    + _recency_score(job.posted_at)
    - _seniority_penalty(job.title)

\* for comparison: the sum returned as it is
Clamp_None(s) == s

\* max(0, min(100, int(s)))
Clamp(s) == Max2(0, Min2(100, s))

\* score_job(job): <<score, ctc_predicted_pass>>.  job.companies is <<>> when
\* the caller passes no "companies" key and <<c>> for the joined company c;
\* job.remote is a BOOLEAN column: NULL, <<0>> or <<1>>
score_job(job) ==
    LET comp_status == IF job.companies # <<>> /\ job.companies[1].comp_gate_status # ""
                       THEN job.companies[1].comp_gate_status
                       ELSE "probation"
        title_lower == Lower(OrElse(job.title, <<>>))
    IN  << Clamp(RawScore(job)),
           comp_status = "pass" /\ ~Contains(title_lower, <<"i","n","t","e","r","n">>) >>

(***************************************************************************)
(* RawPostings: what a connector hands to the orchestrator                 *)
(* (keys title, location, detail_url, description, req_id, posted)         *)
(***************************************************************************)
\* "Data Engineer" in "Bengaluru, India", requisition 123
P_new ==
    [ title       |-> <<"D","a","t","a"," ","E","n","g","i","n","e","e","r">>,
      location    |-> <<"B","e","n","g","a","l","u","r","u",","," ","I","n","d","i","a">>,
      detail_url  |-> <<"h","t","t","p","s",":","/","/","x",".","c","o","m","/","j","o","b","s","/","1","2","3">>,
      description |-> None,
      req_id      |-> <<"1","2","3">>,
      posted      |-> <<"2","0","2","5","-","0","1","-","2","4">> ]

\* the same requisition re-fetched with location "Bengaluru"
P_moved ==
    [ title       |-> <<"D","a","t","a"," ","E","n","g","i","n","e","e","r">>,
      location    |-> <<"B","e","n","g","a","l","u","r","u">>,
      detail_url  |-> <<"h","t","t","p","s",":","/","/","x",".","c","o","m","/","j","o","b","s","/","1","2","3">>,
      description |-> None,
      req_id      |-> <<"1","2","3">>,
      posted      |-> <<"2","0","2","5","-","0","1","-","2","4">> ]

\* the same requisition with case and outer whitespace varied, and new url, description and date
P_respaced ==
    [ title       |-> <<" ","d","a","t","a"," ","e","n","g","i","n","e","e","r"," ">>,
      location    |-> <<"B","E","N","G","A","L","U","R","U",","," ","I","n","d","i","a"," ">>,
      detail_url  |-> <<"h","t","t","p","s",":","/","/","x",".","c","o","m","/","j","o","b","s","/","1","2","3","?","s","r","c","=","f","e","e","d">>,
      description |-> <<"p","y","t","h","o","n"," ","s","q","l">>,
      req_id      |-> <<" ","1","2","3">>,
      posted      |-> <<"2","0","2","5","-","0","1","-","3","0","T","0","8",":","0","0",":","0","0","Z">> ]

\* "VP, Risk" in "Mumbai", no requisition id
P_vp ==
    [ title       |-> <<"V","P",","," ","R","i","s","k">>,
      location    |-> <<"M","u","m","b","a","i">>,
      detail_url  |-> <<"h","t","t","p","s",":","/","/","x",".","c","o","m","/","j","o","b","s","/","7">>,
      description |-> None,
      req_id      |-> None,
      posted      |-> <<"3"," ","d","a","y","s"," ","a","g","o">> ]

\* no location, a url that names another country
P_us ==
    [ title       |-> <<"D","a","t","a"," ","E","n","g","i","n","e","e","r">>,
      location    |-> None,
      detail_url  |-> <<"h","t","t","p","s",":","/","/","x",".","c","o","m","/","j","o","b","s","?","c","o","u","n","t","r","y","=","U","S">>,
      description |-> None,
      req_id      |-> None,
      posted      |-> None ]

\* "Data Engineer" in "Berlin-Mitte", requisition 9
P_berlin ==
    [ title       |-> <<"D","a","t","a"," ","E","n","g","i","n","e","e","r">>,
      location    |-> <<"B","e","r","l","i","n","-","M","i","t","t","e">>,
      detail_url  |-> <<"h","t","t","p","s",":","/","/","x",".","c","o","m","/","j","o","b","s","/","9">>,
      description |-> None,
      req_id      |-> <<"9">>,
      posted      |-> None ]

\* "Data Intern" in "Mumbai", requisition 77
P_intern ==
    [ title       |-> <<"D","a","t","a"," ","I","n","t","e","r","n">>,
      location    |-> <<"M","u","m","b","a","i">>,
      detail_url  |-> <<"h","t","t","p","s",":","/","/","x",".","c","o","m","/","j","o","b","s","/","7","7">>,
      description |-> None,
      req_id      |-> <<"7","7">>,
      posted      |-> None ]

\* postings that state the experience they ask for, in the description and in
\* the title
P_exp ==
    [ title       |-> <<"R","i","s","k"," ","A","n","a","l","y","s","t">>,
      location    |-> <<"P","u","n","e">>,
      detail_url  |-> <<"h","t","t","p","s",":","/","/","x",".","c","o","m","/","j","o","b","s","/","3","1">>,
      description |-> <<"3"," ","y","e","a","r","s"," ","p","y","t","h","o","n",","," ","5"," ","y","r","s"," ","s","q","l">>,
      req_id      |-> <<"3","1">>,
      posted      |-> None ]
P_exp_title ==
    [ title       |-> <<"A","n","a","l","y","s","t"," ","2"," ","y","r","s">>,
      location    |-> <<"M","u","m","b","a","i">>,
      detail_url  |-> <<"h","t","t","p","s",":","/","/","x",".","c","o","m","/","j","o","b","s","/","3","2">>,
      description |-> None,
      req_id      |-> <<"3","2">>,
      posted      |-> None ]

Postings == { P_new, P_moved, P_respaced, P_vp, P_us, P_berlin, P_intern, P_exp, P_exp_title }

\* an element of a page that is no JSON object (null, a number): every field
\* access on it raises AttributeError
NotADict == <<"NotADict">>
P_null ==
    [ title       |-> NotADict,
      location    |-> NotADict,
      detail_url  |-> NotADict,
      description |-> NotADict,
      req_id      |-> NotADict,
      posted      |-> NotADict ]

(***************************************************************************)
(* connectors: what a connector returns for the responses to its page      *)
(* requests.  A response is a failed request (connection error, timeout)  *)
(* or an HTTP answer with a status and the postings of the page; a call    *)
(* returns its jobs, whether it raised, and whether a request of it failed *)
(***************************************************************************)
NetError == [ kind |-> "error", status |-> 0, posts |-> <<>> ]
Http(status, posts) == [ kind |-> "http", status |-> status, posts |-> posts ]

\* workday_cxs.py: the dict built from one posting; description is None and
\* a missing location is ""
WorkdayItem(p) ==
    [ p EXCEPT !.location = OrElse(p.location, <<>>), !.description = None ]

\* workday_cxs.py fetch: the pages from `page` on, with the number of page
\* requests sent.  An element that raises ends the paging at once: the items
\* appended before it stay in the results
RECURSIVE WorkdayPages(_, _, _, _)
WorkdayPages(net, page, limit, max_pages) ==
    LET done == [ jobs |-> <<>>, net_error |-> FALSE, requests |-> 0 ]
        stop == [ done EXCEPT !.requests = 1 ]
    IN  IF page > max_pages THEN done
        ELSE LET r == net[page]
             IN  IF r.kind = "error" THEN [ stop EXCEPT !.net_error = TRUE ]
                 ELSE IF r.status # 200 \/ r.posts = <<>> THEN stop
                 ELSE LET bad   == { i \in DOMAIN r.posts : r.posts[i] = P_null }
                          good  == IF bad = {} THEN Len(r.posts)
                                   ELSE (CHOOSE i \in bad : \A j \in bad : i <= j) - 1
                          items == [ i \in 1..good |-> WorkdayItem(r.posts[i]) ]
                          rest  == IF bad # {} \/ Len(r.posts) < limit
                                   THEN done
                                   ELSE WorkdayPages(net, page + 1, limit, max_pages)
                     IN  [ jobs      |-> items \o rest.jobs,
                           net_error |-> rest.net_error,
                           requests  |-> 1 + rest.requests ]

\* workday_cxs.py fetch: every exception of a page ends the paging and the
\* results so far are returned
fetch_workday(net, limit, max_pages) ==
    LET got == WorkdayPages(net, 1, limit, max_pages)
    IN  [ jobs |-> got.jobs, raised |-> FALSE, net_error |-> got.net_error,
          requests |-> got.requests ]

\* greenhouse_board.py: the dict built from one job; description is the
\* stripped content ("" without content) and a missing location is ""
GreenhouseItem(p) ==
    [ p EXCEPT !.location = OrElse(p.location, <<>>),
               !.description = OrElse(p.description, <<>>) ]

\* greenhouse_board.py fetch: one request; 404, any other error status and
\* a failed request all end in the empty list
fetch_greenhouse(net) ==
    LET r == net[1]
    IN  IF r.kind = "error" THEN [ jobs |-> <<>>, raised |-> FALSE, net_error |-> TRUE ]
        ELSE IF r.status # 200 THEN [ jobs |-> <<>>, raised |-> FALSE, net_error |-> FALSE ]
        ELSE [ jobs |-> [ i \in DOMAIN r.posts |-> GreenhouseItem(r.posts[i]) ],
               raised |-> FALSE, net_error |-> FALSE ]

\* bnpp_group.py _parse_jobs: the dict built from one card
BnppItem(p) ==
    [ p EXCEPT !.description = None, !.req_id = None, !.posted = None ]

\* bnpp_group.py _parse_jobs: the cards of a page, the first of each
\* (title, detail_url)
RECURSIVE BnppDedup(_, _)
BnppDedup(items, seen) ==
    IF items = <<>> THEN <<>>
    ELSE LET k == <<Head(items).title, Head(items).detail_url>>
         IN  IF k \in seen THEN BnppDedup(Tail(items), seen)
             ELSE <<Head(items)>> \o BnppDedup(Tail(items), seen \cup {k})

_parse_jobs(posts) == BnppDedup([ i \in DOMAIN posts |-> BnppItem(posts[i]) ], {})

\* bnpp_group.py fetch: the pages from p on; a failed request raises, a
\* status other than 200 or an empty page ends the paging
RECURSIVE BnppPages(_, _, _)
BnppPages(net, p, max_pages) ==
    IF p > max_pages THEN [ jobs |-> <<>>, raised |-> FALSE, net_error |-> FALSE ]
    ELSE LET r == net[p]
         IN  IF r.kind = "error" THEN [ jobs |-> <<>>, raised |-> TRUE, net_error |-> TRUE ]
             ELSE IF r.status # 200 \/ _parse_jobs(r.posts) = <<>>
             THEN [ jobs |-> <<>>, raised |-> FALSE, net_error |-> FALSE ]
             ELSE LET rest == BnppPages(net, p + 1, max_pages)
                  IN  [ jobs |-> _parse_jobs(r.posts) \o rest.jobs,
                        raised |-> rest.raised, net_error |-> rest.net_error ]

\* bnpp_group.py fetch: the first request raises when it fails and, through
\* raise_for_status, when its status is an error status
fetch_bnpp(net, max_pages) ==
    LET r == net[1]
    IN  IF r.kind = "error" THEN [ jobs |-> <<>>, raised |-> TRUE, net_error |-> TRUE ]
        ELSE IF r.status >= 400 THEN [ jobs |-> <<>>, raised |-> TRUE, net_error |-> FALSE ]
        ELSE LET rest == BnppPages(net, 2, max_pages)
             IN  [ jobs |-> IF rest.raised THEN <<>> ELSE _parse_jobs(r.posts) \o rest.jobs,
                   raised |-> rest.raised, net_error |-> rest.net_error ]

\* every dict a connector of the model can return
Items ==
    Postings \cup { WorkdayItem(p) : p \in Postings }
             \cup { GreenhouseItem(p) : p \in Postings }
             \cup { BnppItem(p) : p \in Postings }

(***************************************************************************)
(* database/local_db.py                                                    *)
(***************************************************************************)
\* bounds of the model
MaxClock == 1
MaxRows == 2

\* the composite key of the de-duplication within a batch
DedupKey(rec) ==
    << Lower(Strip(OrElse(rec.req_id, <<>>))),
       Lower(Strip(OrElse(rec.apply_url, <<>>))),
       Lower(Strip(OrElse(rec.title, <<>>))),
       Lower(Strip(OrElse(rec.location_city, <<>>))) >>

\* the loop that builds `cleaned`: the first record of each composite key,
\* with company_id set to the call's
RECURSIVE CleanBatch(_, _, _)
CleanBatch(rows, seen, company_id) ==
    IF rows = <<>> THEN <<>>
    ELSE LET rec == Head(rows)
             k   == DedupKey(rec)
         IN  IF k \in seen
             THEN CleanBatch(Tail(rows), seen, company_id)
             ELSE <<[rec EXCEPT !.company_id = company_id]>>
                  \o CleanBatch(Tail(rows), seen \cup {k}, company_id)

\* AUTOINCREMENT (no row of jobs is ever deleted)
NextJobId(tbl) ==
    IF tbl = {} THEN 1
    ELSE 1 + (CHOOSE i \in { r.id : r \in tbl } : \A r \in tbl : r.id <= i)

\* for comparison: a table without the UNIQUE constraint, where no INSERT
\* ever conflicts
Conflicting_None(tbl, rec) == {}

\* the rows the UNIQUE(company_id, canonical_key) constraint sets rec against
\* (a NULL canonical_key conflicts with nothing)
Conflicting(tbl, rec) ==
    { r \in tbl : /\ rec.canonical_key # None
                  /\ r.company_id = rec.company_id
                  /\ r.canonical_key = rec.canonical_key }

\* the row an INSERT creates; the record of normalize_job has no keys
\* remote, min_exp, max_exp, so rec.get gives False, None, None
InsertedRow(tbl, rec, t) ==
    [ id                 |-> NextJobId(tbl),
      company_id         |-> rec.company_id,
      title              |-> rec.title,
      apply_url          |-> rec.apply_url,
      team               |-> rec.team,
      location_city      |-> rec.location_city,
      location_country   |-> rec.location_country,
      description        |-> rec.description,
      req_id             |-> rec.req_id,
      posted_at          |-> rec.posted_at,
      canonical_key      |-> rec.canonical_key,
      remote             |-> <<0>>,
      min_exp            |-> NULL,
      max_exp            |-> NULL,
      relevance_score    |-> NULL,
      ctc_predicted_pass |-> NULL,
      first_seen_at      |-> t,
      updated_at         |-> t ]

\* for comparison: INSERT OR REPLACE, which rewrites the whole row and its
\* first_seen_at
UpdatedRow_Replace(r, rec, t) ==
    [ r EXCEPT !.title            = rec.title,
               !.apply_url        = rec.apply_url,
               !.location_city    = rec.location_city,
               !.location_country = rec.location_country,
               !.description      = rec.description,
               !.posted_at        = rec.posted_at,
               !.first_seen_at    = t,
               !.updated_at       = t ]

\* for comparison: an update that also clears the scoring columns
UpdatedRow_Unscored(r, rec, t) ==
    [ r EXCEPT !.title              = rec.title,
               !.apply_url          = rec.apply_url,
               !.location_city      = rec.location_city,
               !.location_country   = rec.location_country,
               !.description        = rec.description,
               !.posted_at          = rec.posted_at,
               !.relevance_score    = NULL,
               !.ctc_predicted_pass = NULL,
               !.updated_at         = t ]

\* ON CONFLICT(company_id, canonical_key) DO UPDATE SET ...
UpdatedRow(r, rec, t) ==
    [ r EXCEPT !.title            = rec.title,
               !.apply_url        = rec.apply_url,
               !.location_city    = rec.location_city,
               !.location_country = rec.location_country,
               !.description      = rec.description,
               !.posted_at        = rec.posted_at,
               !.updated_at       = t ]

\* for comparison: DELETE the conflicting rows, then INSERT, which gives the
\* posting a new id and a new first_seen_at
InsertOrUpdate_Reinsert(tbl, rec, t) ==
    (tbl \ Conflicting(tbl, rec)) \cup { InsertedRow(tbl, rec, t) }

\* one INSERT ... ON CONFLICT ... DO UPDATE statement at time t
InsertOrUpdate(tbl, rec, t) ==
    LET hit == Conflicting(tbl, rec)
    IN  IF hit = {}
        THEN tbl \cup { InsertedRow(tbl, rec, t) }
        ELSE (tbl \ hit) \cup { UpdatedRow(r, rec, t) : r \in hit }

\* the loop over `cleaned`
RECURSIVE ExecAll(_, _, _)
ExecAll(tbl, cleaned, t) ==
    IF cleaned = <<>> THEN tbl
    ELSE ExecAll(InsertOrUpdate(tbl, Head(cleaned), t), Tail(cleaned), t)

\* upsert_jobs(company_id, rows) on table tbl at time t: the table after the
\* commit and the returned count
upsert_jobs(tbl, company_id, rows, t) ==
    LET cleaned == CleanBatch(rows, {}, company_id)
    IN  IF rows = <<>> \/ cleaned = <<>>
        THEN [ jobs |-> tbl, count |-> 0 ]
        ELSE [ jobs |-> ExecAll(tbl, cleaned, t), count |-> Len(cleaned) ]

\* update_job_score(job_id, score, ctc_pass) at time t
update_job_score(tbl, job_id, score, ctc_pass, t) ==
    { IF r.id = job_id
      THEN [ r EXCEPT !.relevance_score    = <<score>>,
                      !.ctc_predicted_pass = <<IF ctc_pass THEN 1 ELSE 0>>,
                      !.updated_at         = t ]
      ELSE r : r \in tbl }

\* upsert_jobs_raw(company_id, None, page_url, payload): one appended row
upsert_jobs_raw(log, company_id, page_url, payload, t) ==
    Append(log, [ company_id |-> company_id, page_url |-> page_url,
                  payload |-> payload, created_at |-> t ])

(***************************************************************************)
(* tools/scrape_final.py: the normalize-and-save step and the scoring sweep *)
(***************************************************************************)
\* normalize_job over the postings of the model, computed once: the function
\* is pure and only copies company_id into the record
NormTab ==
    [ p \in Items |->
        normalize_job(0, p.title, p.detail_url, p.location,
                      p.description, p.req_id, p.posted) ]

\* the loop "for job in recent_jobs: normalize_job(...)"
NormalizeAll(company_id, raws) ==
    [ i \in DOMAIN raws |-> [ NormTab[raws[i]] EXCEPT !.company_id = company_id ] ]

\* the dict score_all_jobs hands to score_job: it has no "companies" key
job_for_scoring(job) ==
    [ title         |-> job.title,
      description   |-> OrElse(job.description, <<>>),
      location_city |-> OrElse(job.location_city, <<>>),
      remote        |-> job.remote,
      min_exp       |-> job.min_exp,
      max_exp       |-> job.max_exp,
      posted_at     |-> job.posted_at,
      companies     |-> <<>> ]

\* score_job over the dicts that come from rows of the model's postings,
\* computed once
ScoreTab ==
    [ j \in { job_for_scoring(InsertedRow({}, NormTab[p], 0)) : p \in Postings } |->
        score_job(j) ]

\* score_job(job_for_scoring) inside the loop of score_all_jobs
ScoreOf(r) ==
    IF job_for_scoring(r) \in DOMAIN ScoreTab
    THEN ScoreTab[job_for_scoring(r)]
    ELSE score_job(job_for_scoring(r))

\* score_all_jobs(): every row is scored and written back at time t
score_all_jobs(tbl, t) ==
    { [ r EXCEPT !.relevance_score    = <<ScoreOf(r)[1]>>,
                 !.ctc_predicted_pass = <<IF ScoreOf(r)[2] THEN 1 ELSE 0>>,
                 !.updated_at         = t ] : r \in tbl }

(***************************************************************************)
(* The store under upserts, scoring sweeps and passing time                *)
(***************************************************************************)
\* the companies table after seeding
SeedCompanies ==
    { [ id |-> 1, name |-> "Acme", careers_url |-> None, ats_type |-> "workday_cxs",
        active |-> 1, comp_gate_status |-> "pass" ],
      [ id |-> 2, name |-> "Globex", careers_url |-> None, ats_type |-> "greenhouse",
        active |-> 1, comp_gate_status |-> "probation" ] }

CompanyIds == { c.id : c \in SeedCompanies }

\* the postings the store is driven with: one requisition as first fetched,
\* re-fetched with another location text, and re-fetched with case,
\* whitespace, url, description and date changed
StorePostings == { P_new, P_moved, P_respaced }

\* the batches a caller submits: one posting; one posting twice; two
\* postings of one canonical key, in either order; two postings of two keys
Batches ==
    { <<p>> : p \in StorePostings }
    \cup { <<P_new, P_new>>, <<P_new, P_respaced>>, <<P_respaced, P_new>>,
           <<P_new, P_moved>> }

Idle == [ op |-> "none" ]

StoreInit ==
    /\ companies = SeedCompanies
    /\ jobs = {}
    /\ jobs_raw = <<>>
    /\ now = 0
    /\ last = Idle
    /\ run = Idle
    /\ probe = Idle

\* a caller normalizes a batch of postings and upserts it (scrape_final.py
\* main, lines 145-160); last.again tells that the store operation before
\* this one was the same call
StoreUpsert(c, raws) ==
    /\ \E res \in { upsert_jobs(jobs, c, NormalizeAll(c, raws), now) } :
          /\ Cardinality(res.jobs) <= MaxRows
          /\ jobs' = res.jobs
    /\ last' = [ op |-> "upsert_jobs", company_id |-> c, raws |-> raws,
                 again |-> /\ last.op = "upsert_jobs"
                           /\ last.company_id = c
                           /\ last.raws = raws ]
    /\ UNCHANGED <<companies, jobs_raw, now, run, probe>>

\* a second passes
Tick ==
    /\ now < MaxClock
    /\ now' = now + 1
    /\ UNCHANGED <<companies, jobs, jobs_raw, last, run, probe>>

StoreNext ==
    \/ \E c \in CompanyIds, raws \in Batches : StoreUpsert(c, raws)
    \/ Tick

SpecStore == StoreInit /\ [][StoreNext]_vars

(***************************************************************************)
(* Claims about the store                                                  *)
(***************************************************************************)
\* the records of each call that reach the store, in order, computed once
CleanedTab ==
    [ c \in CompanyIds, raws \in Batches |->
        CleanBatch(NormalizeAll(c, raws), {}, c) ]

\* the records of the upsert call l that reach the store
LastCleaned(l) == CleanedTab[l.company_id, l.raws]

\* the record of the batch that is written last under canonical key k
LastWritten(cleaned, k) ==
    cleaned[CHOOSE i \in DOMAIN cleaned :
                /\ cleaned[i].canonical_key = k
                /\ \A j \in DOMAIN cleaned : cleaned[j].canonical_key = k => j <= i]

\* a step of StoreUpsert (Tick changes the clock and nothing else does)
IsUpsertStep == now' = now /\ last'.op = "upsert_jobs"

\* C1: after any sequence of upsert calls the store holds at most one
\* CanonicalPosting for each (company_id, canonical_key) pair.
C1_UniquePerCompanyKey ==
    \A r1 \in jobs : \A r2 \in jobs :
        (r1.company_id = r2.company_id /\ r1.canonical_key = r2.canonical_key)
            => r1 = r2

\* C1 witness: both companies hold the same canonical key, and one of the two
\* records has been hit by a later upsert.
C1_Witness ==
    \E r1 \in jobs : \E r2 \in jobs :
        /\ r1.company_id # r2.company_id
        /\ r1.canonical_key = r2.canonical_key
        /\ r1.updated_at > r1.first_seen_at

\* C2: once a CanonicalPosting has been inserted its first_seen_at never
\* changes (the record stays, with its id, company and key), and an upsert
\* that hits it sets title, apply URL, location, description and posted
\* timestamp to the values of the record written last under its key.
C2_FirstSeenKept ==
    [][ /\ \A r \in jobs : \E r2 \in jobs' :
              /\ r2.id = r.id
              /\ r2.company_id = r.company_id
              /\ r2.canonical_key = r.canonical_key
              /\ r2.first_seen_at = r.first_seen_at
        /\ IsUpsertStep =>
              \A i \in DOMAIN LastCleaned(last') :
                  \A r \in Conflicting(jobs, LastCleaned(last')[i]) : \E r2 \in jobs' :
                      LET new == LastWritten(LastCleaned(last'), r.canonical_key)
                      IN  /\ r2.id = r.id
                          /\ r2.title = new.title
                          /\ r2.apply_url = new.apply_url
                          /\ r2.location_city = new.location_city
                          /\ r2.description = new.description
                          /\ r2.posted_at = new.posted_at
                          /\ r2.first_seen_at = r.first_seen_at
      ]_vars

\* C2 witness: a record inserted at an earlier second now carries the url,
\* location and description of the re-fetched posting that was upserted last.
C2_Witness ==
    /\ last.op = "upsert_jobs"
    /\ last.raws = <<P_respaced>>
    /\ \E r \in jobs :
          /\ r.company_id = last.company_id
          /\ r.first_seen_at < r.updated_at
          /\ r.updated_at = now
          /\ r.apply_url = P_respaced.detail_url
          /\ r.location_city = Strip(P_respaced.location)
          /\ r.description = P_respaced.description

\* a row without its updated_at
ForgetUpdated(r) == [ f \in (DOMAIN r) \ {"updated_at"} |-> r[f] ]

\* C3: upserting the same batch for the same company twice in sequence
\* leaves exactly one record per posting of the batch, and every field but
\* updated_at is after the second call what it was after the first.
C3_UpsertIdempotent ==
    [][ (IsUpsertStep /\ last'.again) =>
            /\ { ForgetUpdated(r) : r \in jobs' } = { ForgetUpdated(r) : r \in jobs }
            /\ Cardinality(jobs') = Cardinality(jobs)
            /\ \A i \in DOMAIN LastCleaned(last') :
                   Cardinality({ r \in jobs' :
                       /\ r.company_id = last'.company_id
                       /\ r.canonical_key = LastCleaned(last')[i].canonical_key }) = 1
      ]_vars

\* C3 witness: one posting was upserted twice in sequence, the second time
\* at a later second.
C3_Witness ==
    /\ last.op = "upsert_jobs"
    /\ last.again
    /\ Len(last.raws) = 1
    /\ \E r \in jobs :
          /\ r.company_id = last.company_id
          /\ r.canonical_key = LastCleaned(last)[1].canonical_key
          /\ r.first_seen_at < r.updated_at

\* C4 (as claimed): postings of one company that carry the same requisition
\* id end in one record, whatever their title or location text.
C4_OneRecordPerRequisition ==
    \A r1 \in jobs : \A r2 \in jobs :
        (r1.company_id = r2.company_id /\ r1.req_id # None /\ r1.req_id = r2.req_id)
            => r1 = r2

(***************************************************************************)
(* The region gate under probes: india_location_ok applied to a location   *)
(* text and a detail url                                                    *)
(***************************************************************************)
\* location texts: absent, empty, blank, Indian and foreign places, a country
\* code, a sentence with the word "in"
GateLocations ==
    { None,
      <<>>,
      <<" ">>,
      <<"M","u","m","b","a","i">>,
      <<"L","o","n","d","o","n">>,
      <<"I","N","-","P","u","n","e">>,
      <<"R","e","m","o","t","e">>,
      <<"B","e","n","g","a","l","u","r","u",","," ","I","n","d","i","a">>,
      <<"N","e","w"," ","Y","o","r","k",","," ","U","S">>,
      <<"B","a","s","e","d"," ","i","n"," ","L","o","n","d","o","n">> }

\* detail urls: absent, empty, India named in a query value, in the path, in
\* the host, in a query key, in the fragment, inside another word, and not at all
GateUrls ==
    { None,
      <<>>,
      <<"h","t","t","p","s",":","/","/","x",".","c","o","m","/","j","o","b","s","?","c","o","u","n","t","r","y","=","U","S">>,
      <<"h","t","t","p","s",":","/","/","x",".","c","o","m","/","j","o","b","s","?","l","o","c","a","t","i","o","n","=","I","n","d","i","a">>,
      <<"h","t","t","p","s",":","/","/","x",".","c","o","m","/","e","n","/","I","n","d","i","a","/","j","o","b","s">>,
      <<"h","t","t","p","s",":","/","/","x",".","c","o","m","/","i","n","d","i","a","n","a","/","j","o","b","s">>,
      <<"h","t","t","p","s",":","/","/","i","n","d","i","a",".","x",".","c","o","m","/","j","o","b","s">>,
      <<"h","t","t","p","s",":","/","/","x",".","c","o","m","/","j","o","b","s","?","c","o","u","n","t","r","y","=","I","N">>,
      <<"h","t","t","p","s",":","/","/","x",".","c","o","m","/","j","o","b","s","/","1","2","3">>,
      <<"h","t","t","p","s",":","/","/","x",".","c","o","m","/","j","o","b","s","?","i","n","d","i","a","=","1">>,
      <<"h","t","t","p","s",":","/","/","x",".","c","o","m","/","j","o","b","s","?","q","=","d","a","t","a","+","i","n","d","i","a","&","p","a","g","e","=","2">>,
      <<"x",".","c","o","m","/","c","a","r","e","e","r","s","#","i","n","d","i","a">> }

\* india_location_ok over the probes of the model, computed once
GateTab ==
    [ loc \in GateLocations, url \in GateUrls |-> india_location_ok(loc, url) ]

GateInit ==
    /\ companies = SeedCompanies
    /\ jobs = {}
    /\ jobs_raw = <<>>
    /\ now = 0
    /\ last = Idle
    /\ run = Idle
    /\ probe = Idle

\* a caller asks the gate about one posting
GateProbe(loc, url) ==
    /\ probe' = [ op |-> "india_location_ok", loc |-> loc, apply_url |-> url,
                  admits |-> GateTab[loc, url] ]
    /\ UNCHANGED <<companies, jobs, jobs_raw, now, last, run>>

GateNext == \E loc \in GateLocations, url \in GateUrls : GateProbe(loc, url)

SpecGate == GateInit /\ [][GateNext]_vars

\* the text has no character but whitespace, or is absent
Blank(x) == ~Truthy(x) \/ Strip(x) = <<>>

\* the url names India nowhere, in whatever letter case
NamesIndiaNowhere(url) ==
    ~Truthy(url) \/ ~Contains(Lower(url), <<"i","n","d","i","a">>)

ScoreTitles ==
    { None,
      <<"I","n","t","e","r","n">>,
      <<"Q","u","a","n","t","i","t","a","t","i","v","e"," ","A","n","a","l","y","s","t">>,
      <<"S","e","n","i","o","r"," ","D","a","t","a"," ","E","n","g","i","n","e","e","r">>,
      <<"D","a","t","a"," ","E","n","g","i","n","e","e","r">>,
      <<"L","e","a","d"," ","D","a","t","a"," ","E","n","g","i","n","e","e","r">> }

\* descriptions: absent, two skill tokens, fourteen skill tokens
ScoreDescriptions ==
    { None,
      <<"p","y","t","h","o","n"," ","s","q","l">>,
      <<"p","y","t","h","o","n"," ","p","a","n","d","a","s"," ","n","u","m","p","y"," ","s","c","i","k","i","t"," ","s","k","l","e","a","r","n"," ","p","y","t","o","r","c","h"," ","t","e","n","s","o","r","f","l","o","w"," ","s","q","l"," ","p","y","s","p","a","r","k"," ","s","p","a","r","k"," ","a","w","s"," ","g","c","p"," ","a","z","u","r","e"," ","a","i","r","f","l","o","w">> }

\* <<min_exp, max_exp>>: unknown, inside 1..3, beyond 4
ScoreExperience ==
    { <<NULL, NULL>>,
      <<<<1>>, <<3>>>>,
      <<<<10>>, <<20>>>> }

\* <<location_city, remote>>: a foreign city, no location, a top-tier city,
\* a remote job
ScorePlaces ==
    { <<<<"L","o","n","d","o","n">>, NULL>>,
      <<None, <<0>>>>,
      <<<<"M","u","m","b","a","i">>, <<0>>>>,
      <<<<"L","o","n","d","o","n">>, <<1>>>> }

\* posted_at: absent, 1 day, 26 days and 244 days before Today
ScorePosted ==
    { None,
      <<"2","0","2","5","-","0","1","-","3","0","T","0","8",":","0","0",":","0","0","+","0","0",":","0","0">>,
      <<"2","0","2","5","-","0","1","-","0","5">>,
      <<"2","0","2","4","-","0","6","-","0","1">> }

\* the joined company: none, or one that passes the compensation gate
ScoreCompanies == { <<>>, <<[comp_gate_status |-> "pass"]>> }

ScoreJobs ==
    { [ title |-> ti, description |-> de, location_city |-> pl[1], remote |-> pl[2],
        min_exp |-> ex[1], max_exp |-> ex[2], posted_at |-> po, companies |-> co ] :
        ti \in ScoreTitles, de \in ScoreDescriptions, ex \in ScoreExperience,
        pl \in ScorePlaces, po \in ScorePosted, co \in ScoreCompanies }

\* score_job over the jobs of the model, computed once
ScoreJobTab == [ job \in ScoreJobs |-> score_job(job) ]

ScoreInit ==
    /\ companies = SeedCompanies
    /\ jobs = {}
    /\ jobs_raw = <<>>
    /\ now = 0
    /\ last = Idle
    /\ run = Idle
    /\ probe = Idle

\* a caller scores one job
ScoreProbe(job) ==
    /\ probe = Idle
    /\ probe' = [ op |-> "score_job", job |-> job,
                  score |-> ScoreJobTab[job][1], ctc |-> ScoreJobTab[job][2] ]
    /\ UNCHANGED <<companies, jobs, jobs_raw, now, last, run>>

\* the caller is done with the result
ScoreForget ==
    /\ probe # Idle
    /\ probe' = Idle
    /\ UNCHANGED <<companies, jobs, jobs_raw, now, last, run>>

ScoreNext ==
    \/ \E job \in ScoreJobs : ScoreProbe(job)
    \/ ScoreForget

SpecScore == ScoreInit /\ [][ScoreNext]_vars

\* C10: the score the scorer returns is an integer from 0 to 100, whatever
\* the components (title weight, skills, experience, location, recency,
\* seniority penalty) add up to.
C10_ScoreInRange ==
    probe.op = "score_job" => (probe.score \in Int /\ 0 <= probe.score /\ probe.score <= 100)

\* C10 witness: a job whose components add up to less than 0 was scored 0.
C10_Witness ==
    /\ probe.op = "score_job"
    /\ RawScore(probe.job) < 0
    /\ probe.score = 0

\* the titles of the model that name a manager/lead/VP/director-class role or
\* an intern/trainee role, and the titles that name neither
PenalizedTitles == { <<"I","n","t","e","r","n">>,
                     <<"L","e","a","d"," ","D","a","t","a"," ","E","n","g","i","n","e","e","r">> }
PlainTitles == { None,
                 <<"Q","u","a","n","t","i","t","a","t","i","v","e"," ","A","n","a","l","y","s","t">>,
                 <<"D","a","t","a"," ","E","n","g","i","n","e","e","r">> }

\* C24: of two jobs equal in every component of the score, the one whose
\* title triggers the seniority penalty has the strictly lower final score.
C24_PenaltyLowersScore ==
    (probe.op = "score_job" /\ probe.job.title \in PenalizedTitles) =>
        \A t2 \in PlainTitles :
            _match_weight(t2) = _match_weight(probe.job.title) =>
                probe.score < ScoreJobTab[[ probe.job EXCEPT !.title = t2 ]][1]

\* C24 witness: a lead job was scored above 0 and exactly 8 below the same
\* job under the plain title of the same keyword weight.
C24_Witness ==
    /\ probe.op = "score_job"
    /\ probe.job.title = <<"L","e","a","d"," ","D","a","t","a"," ","E","n","g","i","n","e","e","r">>
    /\ probe.score > 0
    /\ probe.score + 8 = ScoreJobTab[[ probe.job EXCEPT !.title = <<"D","a","t","a"," ","E","n","g","i","n","e","e","r">> ]][1]

(***************************************************************************)
(* tools/ingest_jobs.py: the run over the source registry                  *)
(***************************************************************************)
\* AUTOINCREMENT of companies.id
NextCompanyId(tbl) ==
    IF tbl = {} THEN 1
    ELSE 1 + (CHOOSE i \in { c.id : c \in tbl } : \A c \in tbl : c.id <= i)

\* upsert_company(name, careers_url, ats_type, active, comp_gate_status): the
\* table after the commit and the id of the row of that name
upsert_company(tbl, name, careers_url, ats_type, active, comp_gate_status) ==
    IF \E c \in tbl : c.name = name
    THEN [ companies |-> { IF c.name = name
                           THEN [ c EXCEPT !.careers_url = careers_url,
                                           !.ats_type = ats_type,
                                           !.active = active,
                                           !.comp_gate_status = comp_gate_status ]
                           ELSE c : c \in tbl },
           id |-> (CHOOSE c \in tbl : c.name = name).id ]
    ELSE [ companies |-> tbl \cup { [ id |-> NextCompanyId(tbl), name |-> name,
                                      careers_url |-> careers_url, ats_type |-> ats_type,
                                      active |-> active,
                                      comp_gate_status |-> comp_gate_status ] },
           id |-> NextCompanyId(tbl) ]

\* _company_map(): name -> id of the active companies
_company_map(tbl) ==
    [ n \in { c.name : c \in { x \in tbl : x.active = 1 } } |->
        (CHOOSE c \in tbl : c.name = n).id ]

\* _truthy(v, True)
_truthy(v) ==
    IF ~Truthy(v) THEN TRUE
    ELSE Lower(Strip(v)) \in { <<"t","r","u","e">>, <<"1">>, <<"y","e","s">>, <<"y">> }

\* str(x)
Str(x) == IF x = None THEN <<"N","o","n","e">> ELSE x

india_keywords ==
    { <<"i","n","d","i","a">>,
      <<"b","e","n","g","a","l","u","r","u">>,
      <<"b","a","n","g","a","l","o","r","e">>,
      <<"m","u","m","b","a","i">>,
      <<"h","y","d","e","r","a","b","a","d">>,
      <<"p","u","n","e">>,
      <<"c","h","e","n","n","a","i">>,
      <<"g","u","r","g","a","o","n">>,
      <<"g","u","r","u","g","r","a","m">>,
      <<"n","o","i","d","a">>,
      <<"d","e","l","h","i">>,
      <<"k","o","l","k","a","t","a">>,
      <<"a","h","m","e","d","a","b","a","d">>,
      <<"r","e","m","o","t","e"," ","-"," ","i","n","d","i","a">>,
      <<"i","n","-">> }

\* the test of _filter_india_jobs on one job, over the dicts of the model,
\* computed once
KeywordTab ==
    [ d \in Items |-> \E kw \in india_keywords : Contains(Lower(Str(d.location)), kw) ]

\* _filter_india_jobs(jobs, india_only)
_filter_india_jobs(fetched, india_only) ==
    IF ~india_only THEN fetched
    ELSE LET Keep(d) == KeywordTab[d] IN SelectSeq(fetched, Keep)

\* india_location_ok(loc) as run_from_sources_csv calls it, with
\* loc = (d.get("location") or "").strip() or None and no apply_url, over the
\* dicts of the model, computed once
AdmitTab ==
    [ d \in Items |->
        india_location_ok(OrElse(Strip(OrElse(d.location, <<>>)), None), None) ]

\* the default of limit for a workday_cxs source
DefaultLimit == 50

\* json.loads(row.get("params") or "{}") on the params texts of the model; a
\* JSONDecodeError gives {}.  A key that is absent is NULL
NoParams == [ type |-> "dict", india_only |-> NULL, limit |-> NULL, max_pages |-> NULL ]

ParseParams(text) ==
    CASE text = ""                                  -> NoParams
      [] text = "{}"                                -> NoParams
      [] text = "{oops"                             -> NoParams
      [] text = "[]"                                -> [ NoParams EXCEPT !.type = "list" ]
      [] text = "{\"india_only\": false}"           -> [ NoParams EXCEPT !.india_only = <<FALSE>> ]
      [] text = "{\"max_pages\": 2}"                -> [ NoParams EXCEPT !.max_pages = <<2>> ]
      [] text = "{\"limit\": 2, \"max_pages\": 2}"  -> [ NoParams EXCEPT !.limit = <<2>>,
                                                                          !.max_pages = <<2>> ]

\* params.get(key, default)
Get(params, key, default) == IF params[key] = NULL THEN default ELSE params[key][1]

\* the connector call of a source: lines 133-192
Dispatch(kind, params, net) ==
    CASE kind = "greenhouse" ->
           LET got == fetch_greenhouse(net)
           IN  [ got EXCEPT !.jobs = _filter_india_jobs(@, Get(params, "india_only", TRUE)) ]
      [] kind = "workday_cxs" ->
           fetch_workday(net, Get(params, "limit", DefaultLimit), Get(params, "max_pages", 6))
      [] kind = "bnpp_group" ->
           fetch_bnpp(net, Get(params, "max_pages", 3))

\* the loop "for d in fetched": the records of the jobs that pass the filter
RECURSIVE FilterAndNormalize(_, _, _)
FilterAndNormalize(kind, company_id, fetched) ==
    IF fetched = <<>> THEN <<>>
    ELSE LET d == Head(fetched)
         IN  IF kind # "greenhouse" /\ ~AdmitTab[d]
             THEN FilterAndNormalize(kind, company_id, Tail(fetched))
             ELSE <<[ NormTab[d] EXCEPT !.company_id = company_id ]>>
                  \o FilterAndNormalize(kind, company_id, Tail(fetched))

HandledKinds == { "greenhouse", "workday_cxs", "bnpp_group" }

\* one pass of the loop "for row in reader" over the source `row`, with the
\* responses `net` to the page requests of its connector and the store call
\* `fail` that raises ("none" when no store call raises): what the pass
\* leaves behind and whether an exception left the loop.  upsert_jobs
\* returns before it opens the store when it is given no rows, so it can
\* raise only with rows
SourceStep(row, net, fail, cmap, ctbl, jtbl, log, t) ==
    LET entry == [ endpoint |-> row.endpoint_url, outcome |-> "skipped",
                   raised |-> FALSE, net_error |-> FALSE, count |-> 0,
                   store_raised |-> "none" ]
        stay  == [ escaped |-> FALSE, entry |-> entry, company_map |-> cmap,
                   companies |-> ctbl, jobs |-> jtbl, jobs_raw |-> log ]
    IN  IF row.company = "" \/ ~_truthy(row.active) THEN stay
        ELSE IF row.company \notin DOMAIN cmap /\ fail = "company"
        THEN [ stay EXCEPT !.escaped = TRUE, !.entry.outcome = "escaped",
                           !.entry.store_raised = "company" ]
        ELSE
        LET made   == IF row.company \in DOMAIN cmap
                      THEN [ companies |-> ctbl, id |-> cmap[row.company] ]
                      ELSE upsert_company(ctbl, row.company, None, "greenhouse", 1, "pass")
            cmap2  == [ n \in DOMAIN cmap \cup {row.company} |->
                          IF n = row.company THEN made.id ELSE cmap[n] ]
            known  == [ stay EXCEPT !.company_map = cmap2, !.companies = made.companies ]
            params == ParseParams(row.params)
        IN  IF params.type # "dict"
            THEN [ known EXCEPT !.escaped = TRUE, !.entry.outcome = "escaped" ]
            ELSE IF row.kind \notin HandledKinds
            THEN [ known EXCEPT !.entry.outcome = "no_handler" ]
            ELSE
            LET got == Dispatch(row.kind, params, net)
            IN  IF got.raised
                THEN [ known EXCEPT !.entry.outcome = "fetch_error",
                                    !.entry.raised = TRUE,
                                    !.entry.net_error = got.net_error ]
                ELSE
                LET recs == FilterAndNormalize(row.kind, made.id, got.jobs)
                IN  [ known EXCEPT
                        !.entry.outcome = "processed",
                        !.entry.net_error = got.net_error,
                        !.entry.count = Len(got.jobs),
                        !.entry.store_raised =
                            IF fail = "raw" THEN "raw"
                            ELSE IF fail = "jobs" /\ recs # <<>> THEN "jobs"
                            ELSE "none",
                        !.jobs_raw = IF fail = "raw" THEN log
                                     ELSE upsert_jobs_raw(log, made.id, row.endpoint_url,
                                              [ kind |-> "count", count |-> Len(got.jobs) ], t),
                        !.jobs = IF fail = "jobs" THEN jtbl
                                 ELSE upsert_jobs(jtbl, made.id, recs, t).jobs ]

(***************************************************************************)
(* A run of run_from_sources_csv over a registry of two sources            *)
(***************************************************************************)
\* rows of config/sources.csv
S_wd ==
    [ company |-> "Acme", kind |-> "workday_cxs", endpoint_url |-> "https://acme.wd1/jobs",
      active |-> <<>>, params |-> "{\"limit\": 2, \"max_pages\": 2}" ]
S_gh ==
    [ company |-> "Globex", kind |-> "greenhouse", endpoint_url |-> "https://gh.io/globex/jobs",
      active |-> <<"t","r","u","e">>, params |-> "{oops" ]
S_gh_all ==
    [ company |-> "Globex", kind |-> "greenhouse", endpoint_url |-> "https://gh.io/globex/all",
      active |-> <<"Y","e","s"," ">>, params |-> "{\"india_only\": false}" ]
S_bnpp ==
    [ company |-> "Initech", kind |-> "bnpp_group", endpoint_url |-> "https://initech/india",
      active |-> <<"1">>, params |-> "{\"max_pages\": 2}" ]
S_list ==
    [ company |-> "Acme", kind |-> "workday_cxs", endpoint_url |-> "https://acme.wd1/list",
      active |-> <<>>, params |-> "[]" ]
S_off ==
    [ company |-> "Globex", kind |-> "greenhouse", endpoint_url |-> "https://gh.io/globex/off",
      active |-> <<"n","o">>, params |-> "" ]
S_lever ==
    [ company |-> "Acme", kind |-> "lever", endpoint_url |-> "https://lever/acme",
      active |-> <<>>, params |-> "{}" ]

\* the registries a run is started on
Registries ==
    { <<S_bnpp, S_wd>>, <<S_wd, S_gh>>, <<S_list, S_gh>>, <<S_off, S_wd>>,
      <<S_lever, S_gh_all>>, <<S_gh, S_bnpp>> }

\* the responses to the first and the second page request of a connector call
NetScripts ==
    { <<NetError, NetError>>,
      <<Http(500, <<>>), Http(200, <<>>)>>,
      <<Http(404, <<>>), Http(200, <<>>)>>,
      <<Http(200, <<>>), Http(200, <<>>)>>,
      <<Http(200, <<P_new>>), NetError>>,
      <<Http(200, <<P_new, P_berlin>>), NetError>>,
      <<Http(200, <<P_new, P_berlin>>), Http(200, <<P_moved>>)>>,
      <<Http(200, <<P_new, P_berlin>>), Http(500, <<>>)>>,
      <<Http(200, <<P_us, P_vp>>), Http(200, <<>>)>>,
      <<Http(200, <<P_vp, P_vp>>), Http(200, <<P_new, P_berlin>>)>> }

\* the store call of a pass that raises
StoreFailures == { "none", "company", "raw", "jobs" }

RunInit ==
    /\ companies = SeedCompanies
    /\ jobs = {}
    /\ jobs_raw = <<>>
    /\ now = 0
    /\ last = Idle
    /\ probe = Idle
    /\ \E reg \in Registries :
          run = [ pc |-> "running", sources |-> reg, i |-> 1, trace |-> <<>>,
                  company_map |-> _company_map(SeedCompanies) ]

\* one pass of the loop over the sources; an exception that leaves the loop
\* ends the run
RunSource(net, fail) ==
    /\ run.pc = "running"
    /\ \E step \in { SourceStep(run.sources[run.i], net, fail, run.company_map,
                                companies, jobs, jobs_raw, now) } :
          /\ companies' = step.companies
          /\ jobs' = step.jobs
          /\ jobs_raw' = step.jobs_raw
          /\ run' = [ run EXCEPT
                        !.pc = IF step.escaped THEN "crashed"
                               ELSE IF run.i = Len(run.sources) THEN "done"
                               ELSE "running",
                        !.i = IF step.escaped THEN @ ELSE @ + 1,
                        !.trace = Append(@, step.entry),
                        !.company_map = step.company_map ]
    /\ UNCHANGED <<now, last, probe>>

RunNext ==
    \/ \E net \in NetScripts, fail \in StoreFailures : RunSource(net, fail)
    \/ Tick

SpecRun == RunInit /\ [][RunNext]_vars

(***************************************************************************)
(* Claims about the run                                                    *)
(***************************************************************************)
\* the rows of the audit trail for an endpoint, of one kind of payload
AuditRows(endpoint, kind) ==
    { n \in DOMAIN jobs_raw :
        jobs_raw[n].page_url = endpoint /\ jobs_raw[n].payload.kind = kind }

\* C5 (as claimed): when the connector call of source k raises, the run still
\* passes over every other source and the audit trail holds exactly one
\* failed entry for source k.
C5_FaultIsolated ==
    run.pc = "done" =>
        \A k \in DOMAIN run.trace :
            run.trace[k].raised =>
                /\ Len(run.trace) = Len(run.sources)
                /\ Cardinality(AuditRows(run.trace[k].endpoint, "error")) = 1

\* C6 (as claimed): a source with a page request that failed on the network
\* is recorded as a failure and never as a fetch with an item count.
C6_NetErrorIsFailure ==
    run.pc = "done" =>
        \A k \in DOMAIN run.trace :
            run.trace[k].net_error =>
                /\ AuditRows(run.trace[k].endpoint, "count") = {}
                /\ Cardinality(AuditRows(run.trace[k].endpoint, "error")) = 1

\* C7 (as claimed): no exception leaves the loop over the sources.
C7_NoExceptionEscapes == run.pc # "crashed"

\* C9 (as claimed): every posting in the store is one the region gate admits,
\* given its location and its url.
C9_StoredWasAdmitted ==
    \A r \in jobs : india_location_ok(r.location_city, r.apply_url)

(***************************************************************************)
(* The store under upserts and scoring sweeps                              *)
(***************************************************************************)
\* the batches of a run that is followed by a sweep: a posting, the same
\* posting re-fetched with title, description and date changed, an internship
SweepBatches == { <<P_new>>, <<P_respaced>>, <<P_intern>> }

\* score_all_jobs(): the sweep at the end of scrape_final.py main
StoreScore ==
    /\ jobs' = score_all_jobs(jobs, now)
    /\ last' = [ op |-> "score_all_jobs" ]
    /\ UNCHANGED <<companies, jobs_raw, now, run, probe>>

SweepNext ==
    \/ \E c \in CompanyIds, raws \in SweepBatches : StoreUpsert(c, raws)
    \/ StoreScore
    \/ Tick

SpecSweep == StoreInit /\ [][SweepNext]_vars

\* C11: an upsert leaves relevance_score and ctc_predicted_pass of every
\* record that was in the store as they were, also of a record whose title
\* or description it changes.
C11_ScoresKept ==
    [][ IsUpsertStep =>
            \A r \in jobs : \E r2 \in jobs' :
                /\ r2.id = r.id
                /\ r2.relevance_score = r.relevance_score
                /\ r2.ctc_predicted_pass = r.ctc_predicted_pass
      ]_vars

\* C11 witness: a scored record was hit by the upsert of the re-fetched
\* posting: it carries the new description, and its score is still the one
\* of the old content, not the one its content would get now.
C11_Witness ==
    /\ last.op = "upsert_jobs"
    /\ last.raws = <<P_respaced>>
    /\ \E r \in jobs :
          /\ r.company_id = last.company_id
          /\ r.description = P_respaced.description
          /\ r.updated_at = now
          /\ r.relevance_score # NULL
          /\ r.relevance_score # <<ScoreOf(r)[1]>>

\* C12 (as claimed): the records that one upsert call hands to the store,
\* after the de-duplication of the batch, have pairwise different
\* canonical keys.
C12_CallKeysDistinct ==
    last.op = "upsert_jobs" =>
        \A i \in DOMAIN LastCleaned(last) : \A j \in DOMAIN LastCleaned(last) :
            LastCleaned(last)[i].canonical_key = LastCleaned(last)[j].canonical_key
                => i = j

\* the passes of the run that called a connector
ConnectorCalls ==
    { k \in DOMAIN run.trace : run.trace[k].outcome \in {"processed", "fetch_error"} }

\* C13 (as claimed): at the end of a run the audit trail holds one row for
\* each connector call of the run (but for a call whose append to the audit
\* trail itself raised).
C13_OneRowPerCall ==
    run.pc = "done" =>
        Len(jobs_raw) =
            Cardinality({ k \in ConnectorCalls : run.trace[k].store_raised # "raw" })

\* C14 (as claimed): a source whose upsert raised has a failed entry in the
\* audit trail.
C14_FailedUpsertAudited ==
    run.pc = "done" =>
        \A k \in DOMAIN run.trace :
            run.trace[k].store_raised = "jobs" =>
                AuditRows(run.trace[k].endpoint, "error") # {}

\* the trust tier of the company of a record
TierOf(r) == (CHOOSE c \in companies : c.id = r.company_id).comp_gate_status

\* C15 (as claimed): after a scoring sweep the compensation gate of every
\* record is: its company's tier is "pass" and its title does not name an
\* internship.
C15_GateAfterSweep ==
    last.op = "score_all_jobs" =>
        \A r \in jobs :
            r.ctc_predicted_pass =
                << IF /\ TierOf(r) = "pass"
                      /\ ~Contains(Lower(OrElse(r.title, <<>>)), <<"i","n","t","e","r","n">>)
                   THEN 1 ELSE 0 >>

(***************************************************************************)
(* connectors/oracle_cx.py: the paged requisition API.  A response carries *)
(* the requisitions of the page and the API's hasMore flag                  *)
(***************************************************************************)
HttpMore(status, posts, has_more) ==
    [ kind |-> "http", status |-> status, posts |-> posts, has_more |-> has_more ]

\* oracle_cx.py: host and site alias of the endpoint the model's source names
OracleHost == <<"h","t","t","p","s",":","/","/","x",".","c","o","m">>
OracleAlias == <<"C","X">>

\* oracle_cx.py _detail_url
_detail_url(base_host, site_alias, req_id) ==
    base_host \o <<"/","h","c","m","U","I","/","C","a","n","d","i","d","a","t","e","E","x","p","e","r","i","e","n","c","e","/","e","n","/","s","i","t","e","s","/">>
              \o site_alias \o <<"/","j","o","b","s","/","p","r","e","v","i","e","w","/">> \o req_id

\* oracle_cx.py fetch: the stripped PrimaryLocation of a requisition, None
\* when it is empty
OracleLocation(p) ==
    LET l == Strip(OrElse(p.location, <<>>)) IN IF l = <<>> THEN None ELSE l

\* oracle_cx.py fetch: the India filter on one requisition; the postings of
\* the model carry no PrimaryLocationCountry, so the country is ""
OracleSkips(p, india_only) ==
    /\ india_only
    /\ \/ OracleLocation(p) = None
       \/ ~Contains(Lower(OracleLocation(p)), <<"i","n","d","i","a">>)

\* oracle_cx.py fetch: the dict built from one requisition
OracleItem(p, india_only) ==
    [ title       |-> Strip(OrElse(p.title, <<>>)),
      location    |-> IF OracleLocation(p) # None THEN OracleLocation(p)
                      ELSE IF india_only THEN <<"I","n","d","i","a">> ELSE None,
      detail_url  |-> _detail_url(OracleHost, OracleAlias, Str(p.req_id)),
      description |-> None,
      req_id      |-> Str(p.req_id),
      posted      |-> p.posted ]

\* oracle_cx.py fetch: the items of one page; an element that raises and an
\* element the India filter skips are passed over
RECURSIVE OracleItems(_, _)
OracleItems(posts, india_only) ==
    IF posts = <<>> THEN <<>>
    ELSE LET p == Head(posts)
         IN  (IF p = P_null \/ OracleSkips(p, india_only) THEN <<>>
              ELSE << OracleItem(p, india_only) >>)
             \o OracleItems(Tail(posts), india_only)

\* oracle_cx.py fetch: the pages from `page` on, with the number of page
\* requests sent
RECURSIVE OraclePages(_, _, _, _)
OraclePages(net, page, max_pages, india_only) ==
    LET done == [ jobs |-> <<>>, net_error |-> FALSE, requests |-> 0 ]
        stop == [ done EXCEPT !.requests = 1 ]
    IN  IF page > max_pages THEN done
        ELSE LET r == net[page]
             IN  IF r.kind = "error" \/ r.status >= 400
                 THEN [ stop EXCEPT !.net_error = TRUE ]
                 ELSE IF r.posts = <<>> THEN stop
                 ELSE LET rest == IF ~r.has_more THEN done
                                  ELSE OraclePages(net, page + 1, max_pages, india_only)
                      IN  [ jobs      |-> OracleItems(r.posts, india_only) \o rest.jobs,
                            net_error |-> rest.net_error,
                            requests  |-> 1 + rest.requests ]

\* oracle_cx.py fetch
fetch_oracle(net, max_pages, india_only) ==
    LET got == OraclePages(net, 1, max_pages, india_only)
    IN  [ jobs |-> got.jobs, raised |-> FALSE, net_error |-> got.net_error,
          requests |-> got.requests ]

(***************************************************************************)
(* SpecPaging: one call of a paged connector against a script of responses *)
(***************************************************************************)
\* the page size the calls are made with, and the length of a script
PageSize == 2
MaxPages == 3

\* a page of PageSize elements: `first`, then copies of `other`
PageOf(first, other) == [ i \in 1..PageSize |-> IF i = 1 THEN first ELSE other ]

PagingResponses ==
    { NetError,
      HttpMore(500, <<>>, FALSE),
      HttpMore(200, <<>>, FALSE),
      HttpMore(200, <<P_new>>, TRUE),
      HttpMore(200, <<P_new>>, FALSE),
      HttpMore(200, PageOf(P_new, P_intern), TRUE),
      HttpMore(200, PageOf(P_new, P_intern), FALSE),
      HttpMore(200, PageOf(P_null, P_respaced), TRUE),
      HttpMore(200, PageOf(P_respaced, P_null), TRUE) }

PagingScripts == [ 1..MaxPages -> PagingResponses ]

PagingInit == StoreInit

PagingWorkday(net, max_pages) ==
    /\ probe = Idle
    /\ \E got \in { fetch_workday(net, PageSize, max_pages) } :
           probe' = [ op |-> "fetch", kind |-> "workday_cxs", net |-> net,
                      limit |-> PageSize, max_pages |-> max_pages,
                      india_only |-> TRUE,
                      jobs |-> got.jobs, requests |-> got.requests ]
    /\ UNCHANGED <<companies, jobs, jobs_raw, now, last, run>>

PagingOracle(net, max_pages, india_only) ==
    /\ probe = Idle
    /\ \E got \in { fetch_oracle(net, max_pages, india_only) } :
           probe' = [ op |-> "fetch", kind |-> "oracle_cx", net |-> net,
                      limit |-> PageSize, max_pages |-> max_pages,
                      india_only |-> india_only,
                      jobs |-> got.jobs, requests |-> got.requests ]
    /\ UNCHANGED <<companies, jobs, jobs_raw, now, last, run>>

PagingForget ==
    /\ probe # Idle
    /\ probe' = Idle
    /\ UNCHANGED <<companies, jobs, jobs_raw, now, last, run>>

PagingNext ==
    \/ \E net \in PagingScripts, max_pages \in 1..MaxPages :
           PagingWorkday(net, max_pages)
    \/ \E net \in PagingScripts, max_pages \in 1..MaxPages, india_only \in BOOLEAN :
           PagingOracle(net, max_pages, india_only)
    \/ PagingForget

SpecPaging == PagingInit /\ [][PagingNext]_vars

\* a response that is a full page: PageSize elements, and hasMore true where
\* the API reports it
IsFullPage(r) ==
    /\ r.kind = "http"
    /\ r.status = 200
    /\ Len(r.posts) = probe.limit
    /\ probe.kind = "oracle_cx" => r.has_more

\* C16 (as claimed): a call requests at most max_pages pages, and it requests
\* page i+1 only after page i was a full page.
C16_NextPageOnlyAfterFullPage ==
    probe.op = "fetch" =>
        /\ probe.requests <= probe.max_pages
        /\ \A i \in 1..(probe.requests - 1) : IsFullPage(probe.net[i])

\* what the call is to return for a well-formed element of a page
ExpectedItem(p) ==
    IF probe.kind = "workday_cxs" THEN WorkdayItem(p)
    ELSE OracleItem(p, probe.india_only)

\* C17 (as claimed): a malformed element of a page never ends the call: the
\* other elements of its page are returned, and a following page is
\* requested as after any full page.
C17_MalformedItemDropped ==
    probe.op = "fetch" =>
        \A i \in 1..probe.requests :
            LET r == probe.net[i]
            IN  (r.kind = "http" /\ r.status = 200 /\ P_null \in Range(r.posts)) =>
                    /\ \A k \in DOMAIN r.posts :
                           ( /\ r.posts[k] # P_null
                             /\ \/ probe.kind = "workday_cxs"
                                \/ ~OracleSkips(r.posts[k], probe.india_only) )
                           => ExpectedItem(r.posts[k]) \in Range(probe.jobs)
                    /\ (i < probe.max_pages /\ IsFullPage(r)) => probe.requests > i

(***************************************************************************)
(* connectors/direct_site.py and connectors/play_renderer.py: extraction   *)
(* of job cards from markup.  A card is what its sub-locators select: the  *)
(* text of the title element, the href of the link (None without the       *)
(* attribute) and the text of the location element (None without one)      *)
(***************************************************************************)
\* scheme://netloc of an absolute URL
Origin(u) ==
    LET rest == SubSeq(After(u, ":"), 3, Len(After(u, ":")))
    IN  Before(u, ":") \o <<":", "/", "/">> \o Before(rest, "/")

\* urllib.parse.urljoin(base, href) for an href that starts with "/"
urljoin(base, href) ==
    IF StartsWith(href, <<"/", "/">>) THEN Before(base, ":") \o <<":">> \o href
    ELSE Origin(base) \o href

\* direct_site.py _extract_from_html: the cards from position i on; seen
\* holds the (title, href) keys of the cards before
RECURSIVE StaticCards(_, _, _, _, _)
StaticCards(cards, i, seen, base_url, force_india) ==
    IF i > Len(cards) THEN <<>>
    ELSE LET raw   == OrElse(cards[i].href, <<>>)
             href  == IF StartsWith(raw, <<"/">>) THEN urljoin(base_url, raw) ELSE raw
             title == Strip(cards[i].title)
             text  == IF cards[i].location = None THEN None
                      ELSE Strip(cards[i].location)
             loc   == IF ~Truthy(text) /\ force_india THEN <<"I","n","d","i","a">>
                      ELSE text
             key   == <<title, href>>
         IN  IF title = <<>> \/ href = <<>> \/ key \in seen
             THEN StaticCards(cards, i + 1, seen, base_url, force_india)
             ELSE << [ title       |-> title,
                       location    |-> loc,
                       detail_url  |-> href,
                       description |-> None,
                       req_id      |-> None,
                       posted      |-> None ] >>
                  \o StaticCards(cards, i + 1, seen \cup {key}, base_url, force_india)

\* direct_site.py _extract_from_html: seen starts empty on every page
_extract_from_html(cards, base_url, force_india) ==
    StaticCards(cards, 1, {}, base_url, force_india)

\* a failed page load, or a page with its status and its cards
HtmlPage(ok, cards) == [ kind |-> "http", ok |-> ok, cards |-> cards ]

\* direct_site.py fetch: the pages from `page` on (start_page is 1)
RECURSIVE StaticPages(_, _, _, _, _)
StaticPages(net, page, max_pages, url, force_india) ==
    IF page > max_pages THEN <<>>
    ELSE LET r == net[page]
         IN  IF r.kind = "error" THEN <<>>
             ELSE IF ~r.ok THEN <<>>
             ELSE LET rows == _extract_from_html(r.cards, url, force_india)
                  IN  IF rows = <<>> /\ page > 1 THEN <<>>
                      ELSE rows \o StaticPages(net, page + 1, max_pages, url, force_india)

\* direct_site.py fetch
fetch_direct(net, url, max_pages, force_india) ==
    StaticPages(net, 1, max_pages, url, force_india)

\* play_renderer.py scrape_one: the cards from position i on; seen holds the
\* keys of every card the call has kept so far
RECURSIVE RenderedCards(_, _, _, _, _)
RenderedCards(cards, i, seen, page_url, force_india) ==
    IF i > Len(cards) THEN <<>>
    ELSE LET raw   == Strip(OrElse(cards[i].href, <<>>))
             href  == IF StartsWith(raw, <<"/">>) THEN Origin(page_url) \o raw ELSE raw
             title == Strip(cards[i].title)
             text  == IF cards[i].location = None THEN None
                      ELSE Strip(cards[i].location)
             loc   == IF ~Truthy(text) /\ force_india THEN <<"I","n","d","i","a">>
                      ELSE text
             key   == <<title, href>>
         IN  IF raw = <<>> \/ title = <<>> \/ key \in seen
             THEN RenderedCards(cards, i + 1, seen, page_url, force_india)
             ELSE << [ title       |-> title,
                       location    |-> loc,
                       detail_url  |-> href,
                       description |-> None,
                       req_id      |-> None,
                       posted      |-> None ] >>
                  \o RenderedCards(cards, i + 1, seen \cup {key}, page_url, force_india)

\* play_renderer.py render_and_extract, paging by query parameter: the pages
\* from `page` on, appended to out; a failed load ends the call with the items
\* so far
RECURSIVE RenderedPages(_, _, _, _, _, _)
RenderedPages(net, page, max_pages, url, force_india, out) ==
    IF page > max_pages THEN out
    ELSE LET r == net[page]
         IN  IF r.kind = "error" THEN out
             ELSE LET seen == { <<o.title, o.detail_url>> : o \in Range(out) }
                      rows == RenderedCards(r.cards, 1, seen, url, force_india)
                  IN  RenderedPages(net, page + 1, max_pages, url, force_india, out \o rows)

\* play_renderer.py render_and_extract
render_and_extract(net, url, max_pages, force_india) ==
    RenderedPages(net, 1, max_pages, url, force_india, <<>>)

(***************************************************************************)
(* SpecHtml: one call of a markup connector against a script of pages      *)
(***************************************************************************)
\* the cards of a page, and the pages of a script
MaxCards == 2
HtmlPages == 2

CareersUrl == <<"h","t","t","p","s",":","/","/","x",".","c","o","m","/","c","a","r","e","e","r","s">>

K_rel == [ title    |-> <<" ","D","a","t","a"," ","E","n","g","i","n","e","e","r"," ">>,
           href     |-> <<"/","j","o","b","s","/","1">>,
           location |-> <<"P","u","n","e">> ]
K_abs == [ title    |-> <<"D","a","t","a"," ","E","n","g","i","n","e","e","r">>,
           href     |-> <<"h","t","t","p","s",":","/","/","x",".","c","o","m","/","j","o","b","s","/","1">>,
           location |-> None ]
K_other == [ title    |-> <<"A","n","a","l","y","s","t">>,
             href     |-> <<"/","j","o","b","s","/","2">>,
             location |-> <<"M","u","m","b","a","i",","," ","I","n","d","i","a">> ]
K_nolink == [ title    |-> <<"A","n","a","l","y","s","t">>,
              href     |-> None,
              location |-> None ]

Cards == { K_rel, K_abs, K_other, K_nolink }

HtmlResponses ==
    { NetError, HtmlPage(FALSE, <<>>) }
    \cup { HtmlPage(TRUE, cards) :
              cards \in UNION { [ 1..n -> Cards ] : n \in 0..MaxCards } }

HtmlScripts == [ 1..HtmlPages -> HtmlResponses ]

HtmlInit == StoreInit

HtmlStatic(net, max_pages, force_india) ==
    /\ probe = Idle
    /\ probe' = [ op |-> "scrape", kind |-> "html", net |-> net,
                  max_pages |-> max_pages, force_india |-> force_india,
                  jobs |-> fetch_direct(net, CareersUrl, max_pages, force_india) ]
    /\ UNCHANGED <<companies, jobs, jobs_raw, now, last, run>>

HtmlRendered(net, max_pages, force_india) ==
    /\ probe = Idle
    /\ probe' = [ op |-> "scrape", kind |-> "rendered", net |-> net,
                  max_pages |-> max_pages, force_india |-> force_india,
                  jobs |-> render_and_extract(net, CareersUrl, max_pages, force_india) ]
    /\ UNCHANGED <<companies, jobs, jobs_raw, now, last, run>>

HtmlForget ==
    /\ probe # Idle
    /\ probe' = Idle
    /\ UNCHANGED <<companies, jobs, jobs_raw, now, last, run>>

HtmlNext ==
    \/ \E net \in HtmlScripts, max_pages \in 1..HtmlPages, force_india \in BOOLEAN :
           HtmlStatic(net, max_pages, force_india)
    \/ \E net \in HtmlScripts, max_pages \in 1..HtmlPages, force_india \in BOOLEAN :
           HtmlRendered(net, max_pages, force_india)
    \/ HtmlForget

SpecHtml == HtmlInit /\ [][HtmlNext]_vars

\* C18 (as claimed): the sequence one call of a markup connector returns
\* holds no two items with the same (title, resolved URL).
C18_NoDuplicateItems ==
    probe.op = "scrape" =>
        \A i, j \in DOMAIN probe.jobs :
            ( /\ probe.jobs[i].title = probe.jobs[j].title
              /\ probe.jobs[i].detail_url = probe.jobs[j].detail_url ) => i = j

\* C19 (as claimed): an upsert call that hits an existing (company_id,
\* canonical_key) leaves the record with an updated_at strictly greater than
\* the one it had before the call.
C19_UpdatedAtAdvances ==
    [][ IsUpsertStep =>
            \A r \in jobs : \A r2 \in jobs' :
                ( /\ r2.id = r.id
                  /\ r.company_id = last'.company_id
                  /\ \E i \in DOMAIN LastCleaned(last') :
                         LastCleaned(last')[i].canonical_key = r.canonical_key )
                => r2.updated_at > r.updated_at
      ]_vars

(***************************************************************************)
(* SpecKey: normalize_job applied to two postings that carry no            *)
(* requisition id, as the site orchestrator applies it to every row        *)
(***************************************************************************)
KeyTitles == { <<"A","n","a","l","y","s","t">>,
               <<" ","a","n","a","l","y","s","t"," ">>,
               <<"Q","u","a","n","t">> }
KeyUrls == { <<"h","t","t","p","s",":","/","/","x",".","c","o","m","/","j","o","b","s","/","1">>,
             <<"h","t","t","p","s",":","/","/","x",".","c","o","m","/","j","o","b","s","/","2">>,
             None }
KeyLocations == { <<"P","u","n","e">>, <<"M","u","m","b","a","i">>, None }

KeyPostings ==
    { [ title |-> ti, location |-> lo, detail_url |-> u,
        description |-> None, req_id |-> None, posted |-> None ] :
          ti \in KeyTitles, lo \in KeyLocations, u \in KeyUrls }

\* ingest_sites.py run: the canonical_key of the record normalize_job builds
KeyTab ==
    [ p \in KeyPostings |->
        normalize_job(1, p.title, p.detail_url, p.location, p.description,
                      p.req_id, p.posted).canonical_key ]

KeyInit == StoreInit

KeyProbe(a, b) ==
    /\ probe = Idle
    /\ probe' = [ op |-> "normalize_job", a |-> a, b |-> b,
                  key_a |-> KeyTab[a], key_b |-> KeyTab[b] ]
    /\ UNCHANGED <<companies, jobs, jobs_raw, now, last, run>>

KeyForget ==
    /\ probe # Idle
    /\ probe' = Idle
    /\ UNCHANGED <<companies, jobs, jobs_raw, now, last, run>>

KeyNext ==
    \/ \E a \in KeyPostings, b \in KeyPostings : KeyProbe(a, b)
    \/ KeyForget

SpecKey == KeyInit /\ [][KeyNext]_vars

\* C20 (as claimed): without a requisition id the canonical key is a function
\* of exactly (title, apply URL, location): two postings equal in all three
\* get the same key, and two postings of one title and location that differ
\* in apply URL get different keys.
C20_KeyFromTitleUrlLocation ==
    probe.op = "normalize_job" =>
        LET a == probe.a
            b == probe.b
        IN  /\ (a.title = b.title /\ a.detail_url = b.detail_url /\ a.location = b.location)
                   => probe.key_a = probe.key_b
            /\ (a.title = b.title /\ a.location = b.location /\ a.detail_url # b.detail_url)
                   => probe.key_a # probe.key_b

(***************************************************************************)
(* tools/ingest_sites.py: a run over the entries of config/sites.yaml      *)
(***************************************************************************)
\* a card without a location element whose link names the country in its path
K_url == [ title    |-> <<"Q","u","a","n","t">>,
           href     |-> <<"h","t","t","p","s",":","/","/","x",".","c","o","m","/","i","n","d","i","a","/","j","o","b","s","/","3">>,
           location |-> None ]

SiteCards == { K_rel, K_abs, K_other, K_nolink, K_url }

\* the href of a card as scrape_one resolves it against the page
ResolvedHref(c, page_url) ==
    LET raw == Strip(OrElse(c.href, <<>>))
    IN  IF StartsWith(raw, <<"/">>) THEN Origin(page_url) \o raw ELSE raw

\* every item render_and_extract can build from a card of the model
SiteItems ==
    UNION { Range(RenderedCards(<<c>>, 1, {}, CareersUrl, f)) :
              c \in SiteCards, f \in BOOLEAN }

\* ingest_sites.py run, lines 153-156: the region filter on one row, computed
\* once for every item
SiteAdmitTab ==
    [ r \in SiteItems |->
        india_location_ok(OrElse(Strip(OrElse(r.location, <<>>)), None), None) ]

\* ingest_sites.py run, lines 163-171: normalize_job on one row
SiteNormTab ==
    [ r \in SiteItems |->
        normalize_job(0, r.title, r.detail_url, r.location, r.description,
                      r.req_id, r.posted) ]

\* ingest_sites.py run, lines 161-174: the records of the kept rows, the first
\* of every canonical key
RECURSIVE SiteDedup(_, _, _)
SiteDedup(rows, keys, company_id) ==
    IF rows = <<>> THEN <<>>
    ELSE LET rec == [ SiteNormTab[Head(rows)] EXCEPT !.company_id = company_id ]
             key == rec.canonical_key
         IN  IF ~SiteAdmitTab[Head(rows)] \/ ~Truthy(key) \/ key \in keys
             THEN SiteDedup(Tail(rows), keys, company_id)
             ELSE <<rec>> \o SiteDedup(Tail(rows), keys \cup {key}, company_id)

\* the companies table of a store in which one company has been deactivated
SeedWithInactive ==
    SeedCompanies \cup
    { [ id |-> 3, name |-> "Initech", careers_url |-> None, ats_type |-> "bnpp_group",
        active |-> 0, comp_gate_status |-> "fail" ] }

\* ingest_sites.py _company_map(active_only=True) is the mapping of
\* ingest_jobs.py; one pass of the loop "for s in sites" over entry s with the
\* page loads `net` and the store call `fail` that raises
SiteStep(s, net, fail, cmap, jtbl, log, t) ==
    LET entry == [ endpoint |-> s.url, company |-> s.company, outcome |-> "skipped",
                   calls |-> 0, count |-> 0, store_raised |-> "none",
                   force_india |-> s.force_india, net |-> net ]
        stay  == [ entry |-> entry, jobs |-> jtbl, jobs_raw |-> log ]
    IN  IF \/ s.company = ""
           \/ s.company \notin DOMAIN cmap
           \/ s.url = None
           \/ s.active = "false"
        THEN stay
        ELSE LET rows == render_and_extract(net, s.url, s.max_pages, s.force_india)
                 recs == SiteDedup(rows, {}, cmap[s.company])
             IN  [ entry    |-> [ entry EXCEPT
                                    !.outcome = "processed",
                                    !.calls = 1,
                                    !.count = Len(rows),
                                    !.store_raised =
                                        IF fail = "raw" THEN "raw"
                                        ELSE IF fail = "jobs" /\ recs # <<>> THEN "jobs"
                                        ELSE "none" ],
                   jobs_raw |-> IF fail = "raw" THEN log
                                ELSE upsert_jobs_raw(log, cmap[s.company], s.url,
                                         [ kind |-> "count", count |-> Len(rows) ], t),
                   jobs     |-> IF fail = "jobs" THEN jtbl
                                ELSE upsert_jobs(jtbl, cmap[s.company], recs, t).jobs ]

\* entries of config/sites.yaml
T_acme ==
    [ company |-> "Acme", url |-> CareersUrl, active |-> "absent",
      force_india |-> FALSE, max_pages |-> 2 ]
T_acme_force ==
    [ company |-> "Acme", url |-> CareersUrl, active |-> "true",
      force_india |-> TRUE, max_pages |-> 1 ]
T_globex ==
    [ company |-> "Globex", url |-> CareersUrl, active |-> "true",
      force_india |-> TRUE, max_pages |-> 2 ]
T_globex_off ==
    [ company |-> "Globex", url |-> CareersUrl, active |-> "false",
      force_india |-> FALSE, max_pages |-> 2 ]
T_initech ==
    [ company |-> "Initech", url |-> CareersUrl, active |-> "true",
      force_india |-> FALSE, max_pages |-> 1 ]
T_nourl ==
    [ company |-> "Acme", url |-> None, active |-> "absent",
      force_india |-> FALSE, max_pages |-> 1 ]

SiteRegistries ==
    { <<T_acme, T_globex>>, <<T_acme_force, T_globex_off>>, <<T_initech, T_acme>>,
      <<T_nourl, T_acme_force>>, <<T_globex_off, T_globex>> }

\* the loads of the first and the second page of a call
SiteScripts ==
    { <<NetError, NetError>>,
      <<HtmlPage(TRUE, <<>>), HtmlPage(TRUE, <<>>)>>,
      <<HtmlPage(TRUE, <<K_abs>>), NetError>>,
      <<HtmlPage(TRUE, <<K_other, K_url>>), HtmlPage(TRUE, <<K_rel>>)>>,
      <<HtmlPage(TRUE, <<K_url>>), HtmlPage(TRUE, <<K_abs>>)>>,
      <<HtmlPage(TRUE, <<K_rel, K_abs>>), HtmlPage(TRUE, <<K_rel>>)>>,
      <<HtmlPage(TRUE, <<K_other>>), HtmlPage(TRUE, <<K_other, K_nolink>>)>> }

SiteFailures == { "none", "raw", "jobs" }

SitesInit ==
    /\ companies = SeedWithInactive
    /\ jobs = {}
    /\ jobs_raw = <<>>
    /\ now = 0
    /\ last = Idle
    /\ probe = Idle
    /\ \E reg \in SiteRegistries :
          run = [ pc |-> "running", sources |-> reg, i |-> 1, trace |-> <<>>,
                  company_map |-> _company_map(SeedWithInactive) ]

SitesSource(net, fail) ==
    /\ run.pc = "running"
    /\ \E step \in { SiteStep(run.sources[run.i], net, fail, run.company_map,
                              jobs, jobs_raw, now) } :
          /\ jobs' = step.jobs
          /\ jobs_raw' = step.jobs_raw
          /\ run' = [ run EXCEPT
                        !.pc = IF run.i = Len(run.sources) THEN "done" ELSE "running",
                        !.i = @ + 1,
                        !.trace = Append(@, step.entry) ]
    /\ UNCHANGED <<companies, now, last, probe>>

SitesNext ==
    \/ \E net \in SiteScripts, fail \in SiteFailures : SitesSource(net, fail)
    \/ Tick

SpecSites == SitesInit /\ [][SitesNext]_vars

\* whether the source gives India evidence for a card: in the text of its
\* location element or in its link
CardEvidence ==
    [ c \in SiteCards |->
        india_location_ok(IF c.location = None THEN None
                          ELSE OrElse(Strip(c.location), None),
                          ResolvedHref(c, CareersUrl)) ]

\* the cards of the pages a pass of the run was given
CardsOf(e) == UNION { Range(e.net[n].cards) : n \in { m \in DOMAIN e.net : e.net[m].kind = "http" } }

\* C21 (as claimed): a persisted record has country flag "India" only when a
\* card it was built from gives India evidence in its location text or its
\* link; a default never sets the flag.
C21_IndiaFlagNeedsEvidence ==
    \A r \in jobs :
        r.location_country = <<"I","n","d","i","a">> =>
            \E k \in DOMAIN run.trace :
                \E c \in CardsOf(run.trace[k]) :
                    /\ Strip(c.title) = r.title
                    /\ ResolvedHref(c, CareersUrl) = r.apply_url
                    /\ CardEvidence[c]

\* C22 (as claimed): a card of a processed source that gives India evidence,
\* be it only in its link, is admitted by the region filter and persisted.
C22_UrlEvidenceAdmits ==
    run.pc = "done" =>
        \A k \in DOMAIN run.trace :
            LET e == run.trace[k]
            IN  (e.outcome = "processed" /\ e.store_raised = "none"
                   /\ e.net[1].kind = "http") =>
                    \A c \in Range(e.net[1].cards) :
                        (CardEvidence[c] /\ c.href # None) =>
                            \E r \in jobs :
                                /\ r.title = Strip(c.title)
                                /\ r.company_id = run.company_map[e.company]

(***************************************************************************)
(* SpecExp: the store under upserts of postings that do and that do not    *)
(* state an experience range                                               *)
(***************************************************************************)
ExpPostings == { P_exp, P_exp_title, P_new, P_intern }

ExpNext ==
    \/ \E c \in CompanyIds, p \in ExpPostings : StoreUpsert(c, <<p>>)
    \/ Tick

SpecExp == StoreInit /\ [][ExpNext]_vars

\* the number written right before position i of text (blanks between the
\* number and i are passed over): the empty set when there is none
NumberBefore(text, i) ==
    LET ends == { j \in 1..(i - 1) :
                    /\ text[j] \in DigitSet
                    /\ \A b \in (j + 1)..(i - 1) : text[b] = " " }
    IN  { ToInt(SubSeq(text, k, j)) :
            <<k, j>> \in { <<k, j>> \in (1..Len(text)) \X ends :
                             /\ k <= j
                             /\ \A d \in k..j : text[d] \in DigitSet
                             /\ (k = 1 \/ text[k - 1] \notin DigitSet) } }

\* the numbers of the "N years" and "N yrs" tokens of text
YearTokens(text) ==
    UNION { NumberBefore(text, i) :
              i \in Occurrences(Lower(text), <<"y","e","a","r","s">>)
                    \cup Occurrences(Lower(text), <<"y","r","s">>) }

\* C23 (as claimed): the experience range of a persisted record is the least
\* and the greatest number of the "N years/yrs" tokens of its title and
\* description, and (null, null) when there is no token.
C23_ExperienceRangeDerived ==
    \A r \in jobs :
        LET m == YearTokens(OrElse(r.title, <<>>) \o <<" ">> \o OrElse(r.description, <<>>))
        IN  IF m = {} THEN r.min_exp = NULL /\ r.max_exp = NULL
            ELSE /\ r.min_exp = << CHOOSE n \in m : \A o \in m : n <= o >>
                 /\ r.max_exp = << CHOOSE n \in m : \A o \in m : n >= o >>

\* C25 (as claimed): when a run of run_from_sources_csv has ended, every
\* active source row of the registry has been passed over once and has ended
\* reconciled (fetched, filtered, upserted) or failed (its connector raised).
C25_EverySourceEnds ==
    run.pc \in {"done", "crashed"} =>
        \A k \in DOMAIN run.sources :
            (run.sources[k].company # "" /\ _truthy(run.sources[k].active)) =>
                /\ k \in DOMAIN run.trace
                /\ run.trace[k].outcome \in {"processed", "fetch_error"}

(***************************************************************************)
(* SpecConc: two processes (a scraper started by the web app, the          *)
(* scheduler's scraper) run upsert_jobs on the one SQLite file.  Each      *)
(* opens its own connection; its first INSERT takes the write lock of the  *)
(* file and its commit releases it.  An INSERT of the other process waits  *)
(* for the lock and raises "database is locked" when the wait times out,   *)
(* which the handler around the statement catches                          *)
(***************************************************************************)
Procs == {1, 2}

\* the batches the two processes upsert for company 1
ConcBatches == { <<P_new>>, <<P_new, P_moved>>, <<P_moved, P_respaced>> }

ConcInit ==
    /\ companies = SeedCompanies
    /\ jobs = {}
    /\ jobs_raw = <<>>
    /\ now = 0
    /\ last = Idle
    /\ probe = Idle
    /\ run = [ op    |-> "concurrent",
               lock  |-> 0,
               first |-> {},
               procs |-> [ p \in Procs |->
                             [ pc |-> "idle", rows |-> <<>>, i |-> 1,
                               wrote |-> {}, errors |-> {} ] ] ]

\* upsert_jobs up to the opening of the connection: the batch is cleaned, and
\* the call returns at once when nothing is left
ConcStart(p, raws) ==
    /\ run.op = "concurrent"
    /\ run.procs[p].pc = "idle"
    /\ \E cleaned \in { CleanBatch(NormalizeAll(1, raws), {}, 1) } :
          run' = [ run EXCEPT !.procs[p].rows = cleaned,
                              !.procs[p].pc = IF cleaned = <<>> THEN "done" ELSE "writing" ]
    /\ UNCHANGED <<companies, jobs, jobs_raw, now, last, probe>>

\* one INSERT ... ON CONFLICT statement of process p: it runs when no other
\* process holds the write lock, and p holds the lock from then on
ConcExec(p) ==
    /\ run.op = "concurrent"
    /\ run.procs[p].pc = "writing"
    /\ run.procs[p].i <= Len(run.procs[p].rows)
    /\ run.lock \in {0, p}
    /\ LET rec == run.procs[p].rows[run.procs[p].i]
           key == <<rec.company_id, rec.canonical_key>>
       IN  /\ jobs' = InsertOrUpdate(jobs, rec, now)
           /\ Cardinality(jobs') <= MaxRows
           /\ run' = [ run EXCEPT
                         !.lock = p,
                         !.first = IF \E f \in run.first : f.key = key THEN @
                                   ELSE @ \cup { [ key |-> key, at |-> now ] },
                         !.procs[p].i = @ + 1,
                         !.procs[p].wrote = @ \cup {key} ]
    /\ UNCHANGED <<companies, jobs_raw, now, last, probe>>

\* the statement of process p gives up waiting for the lock another process
\* holds: sqlite3.OperationalError, caught by the handler of the loop
ConcBusy(p) ==
    /\ run.op = "concurrent"
    /\ run.procs[p].pc = "writing"
    /\ run.procs[p].i <= Len(run.procs[p].rows)
    /\ run.lock \notin {0, p}
    /\ run' = [ run EXCEPT !.procs[p].i = @ + 1,
                           !.procs[p].errors = @ \cup {"database is locked"} ]
    /\ UNCHANGED <<companies, jobs, jobs_raw, now, last, probe>>

\* conn.commit() and the close of the connection
ConcCommit(p) ==
    /\ run.op = "concurrent"
    /\ run.procs[p].pc = "writing"
    /\ run.procs[p].i > Len(run.procs[p].rows)
    /\ run' = [ run EXCEPT !.lock = IF @ = p THEN 0 ELSE @,
                           !.procs[p].pc = "done" ]
    /\ UNCHANGED <<companies, jobs, jobs_raw, now, last, probe>>

ConcNext ==
    \/ \E p \in Procs, raws \in ConcBatches : ConcStart(p, raws)
    \/ \E p \in Procs : ConcExec(p)
    \/ \E p \in Procs : ConcBusy(p)
    \/ \E p \in Procs : ConcCommit(p)
    \/ Tick

SpecConc == ConcInit /\ [][ConcNext]_vars

\* C26: under every interleaving of two upserting processes the store holds
\* exactly one record for each (company_id, canonical_key) a statement was
\* run for, its first_seen_at is the time of the first insert of the key, and
\* no statement fails but for a lock wait that timed out.
C26_ConcurrentUpsertsOneRecord ==
    run.op = "concurrent" =>
        /\ \A f \in run.first :
               /\ Cardinality({ r \in jobs : <<r.company_id, r.canonical_key>> = f.key }) = 1
               /\ \A r \in jobs :
                      <<r.company_id, r.canonical_key>> = f.key => r.first_seen_at = f.at
        /\ \A p \in Procs :
               /\ run.procs[p].wrote \subseteq { f.key : f \in run.first }
               /\ run.procs[p].errors \subseteq {"database is locked"}

\* C26 witness: both processes are done, both ran a statement for the same
\* key, the later one at a later second, and one of them lost a statement to
\* a lock wait.
C26_Witness ==
    /\ run.op = "concurrent"
    /\ \A p \in Procs : run.procs[p].pc = "done"
    /\ \E k \in run.procs[1].wrote \cap run.procs[2].wrote :
          \E r \in jobs :
              /\ <<r.company_id, r.canonical_key>> = k
              /\ r.first_seen_at < r.updated_at
    /\ \E p \in Procs : run.procs[p].errors # {}

\* C27 (as claimed): a scoring sweep changes nothing of a record but
\* relevance_score and ctc_predicted_pass (updated_at included), and a sweep
\* that follows a sweep with no upsert in between leaves every record as it
\* was.
C27_SweepChangesOnlyScores ==
    [][ (last'.op = "score_all_jobs") =>
            /\ \A r \in jobs : \E r2 \in jobs' :
                   r = [ r2 EXCEPT !.relevance_score    = r.relevance_score,
                                   !.ctc_predicted_pass = r.ctc_predicted_pass ]
            /\ (last.op = "score_all_jobs") => jobs' = jobs
      ]_vars

(***************************************************************************)
(* SpecSeeded: a run of run_from_sources_csv on a store in which one of    *)
(* the seeded companies has been deactivated                               *)
(***************************************************************************)
SeededInit ==
    /\ companies = SeedWithInactive
    /\ jobs = {}
    /\ jobs_raw = <<>>
    /\ now = 0
    /\ last = Idle
    /\ probe = Idle
    /\ \E reg \in Registries :
          run = [ pc |-> "running", sources |-> reg, i |-> 1, trace |-> <<>>,
                  company_map |-> _company_map(SeedWithInactive) ]

SpecSeeded == SeededInit /\ [][RunNext]_vars

\* C28 (as claimed): a step of an ingestion run leaves every company that
\* exists with its active flag, trust tier, careers endpoint and ATS type; it
\* may only add companies.
C28_RunLeavesCompanies ==
    [][ \A c \in companies : c \in companies' ]_vars

\* the companies that are inactive in the store when the run starts
InactiveAtStart == { c \in SeedWithInactive : c.active = 0 }

\* C29 (as claimed): for a source whose row is inactive, or whose company is
\* inactive in the store when the run starts, the pass makes no connector
\* call, and no posting is stored for such a company.
C29_InactiveNeverFetched ==
    /\ \A k \in DOMAIN run.trace :
           ( \/ ~_truthy(run.sources[k].active)
             \/ run.sources[k].company \in { c.name : c \in InactiveAtStart } )
           => run.trace[k].outcome = "skipped"
    /\ \A r \in jobs : r.company_id \notin { c.id : c \in InactiveAtStart }

(***************************************************************************)
(* app.py: the map background_tasks under task-start requests and the      *)
(* worker threads they start.  A request is numbered by its position in    *)
(* run.threads; the values a worker writes (the result of its analysis,    *)
(* the output of its subprocess, its counts) are modelled by that number   *)
(***************************************************************************)
\* bound of the model: the requests that start a task
MaxTasks == 3

\* the prefixes of the three routes that start a task
TaskKinds == { "cv_analysis", "job_matching", "scraping" }

\* f"{kind}_{int(time.time())}"
task_id(kind, t) == <<kind, t>>

\* background_tasks[tid] = entry
SetTask(tasks, tid, entry) ==
    [ k \in DOMAIN tasks \cup {tid} |-> IF k = tid THEN entry ELSE tasks[k] ]

TasksInit ==
    /\ companies = SeedCompanies
    /\ jobs = {}
    /\ jobs_raw = <<>>
    /\ now = 0
    /\ last = Idle
    /\ probe = Idle
    /\ run = [ op |-> "tasks", background_tasks |-> <<>>, threads |-> <<>> ]

\* upload_cv, match_jobs (a CV is stored) and run_scraper up to their return:
\* the entry is set to "running" and the worker thread is started
TaskStart(kind) ==
    /\ run.op = "tasks"
    /\ Len(run.threads) < MaxTasks
    /\ LET n   == Len(run.threads) + 1
           tid == task_id(kind, now)
       IN  run' = [ run EXCEPT
                      !.background_tasks =
                          SetTask(@, tid, [ status |-> "running", data |-> n, total |-> 0 ]),
                      !.threads = Append(@, [ kind |-> kind, task_id |-> tid,
                                               pc |-> "started" ]) ]
    /\ UNCHANGED <<companies, jobs, jobs_raw, now, last, probe>>

\* match_jobs_async: background_tasks[task_id]["total"] = len(jobs), a write
\* into whatever entry the map holds under the id
WorkerTotal(n) ==
    /\ run.op = "tasks"
    /\ n \in DOMAIN run.threads
    /\ run.threads[n].kind = "job_matching"
    /\ run.threads[n].pc = "started"
    /\ LET tid == run.threads[n].task_id
       IN  run' = [ run EXCEPT
                      !.background_tasks =
                          SetTask(@, tid, [ @[tid] EXCEPT !.total = n ]),
                      !.threads[n].pc = "matching" ]
    /\ UNCHANGED <<companies, jobs, jobs_raw, now, last, probe>>

\* match_jobs_async: the progress entry written after a job is matched
WorkerProgress(n) ==
    /\ run.op = "tasks"
    /\ n \in DOMAIN run.threads
    /\ run.threads[n].pc = "matching"
    /\ run' = [ run EXCEPT
                  !.background_tasks =
                      SetTask(@, run.threads[n].task_id,
                              [ status |-> "running", data |-> n, total |-> n ]) ]
    /\ UNCHANGED <<companies, jobs, jobs_raw, now, last, probe>>

\* the last statement of a worker: the entry of its id is replaced by the
\* "complete" entry, or by the "error" entry of the except branch
WorkerFinish(n, status) ==
    /\ run.op = "tasks"
    /\ n \in DOMAIN run.threads
    /\ \/ run.threads[n].pc = "matching"
       \/ run.threads[n].pc = "started" /\ run.threads[n].kind # "job_matching"
       \/ run.threads[n].pc = "started" /\ status = "error"
    /\ run' = [ run EXCEPT
                  !.background_tasks =
                      SetTask(@, run.threads[n].task_id,
                              [ status |-> status, data |-> n,
                                total |-> IF run.threads[n].kind = "job_matching"
                                             /\ status = "complete"
                                          THEN n ELSE 0 ]),
                  !.threads[n].pc = "done" ]
    /\ UNCHANGED <<companies, jobs, jobs_raw, now, last, probe>>

TasksNext ==
    \/ \E kind \in TaskKinds : TaskStart(kind)
    \/ \E n \in 1..MaxTasks : WorkerTotal(n)
    \/ \E n \in 1..MaxTasks : WorkerProgress(n)
    \/ \E n \in 1..MaxTasks, status \in {"complete", "error"} : WorkerFinish(n, status)
    \/ Tick

SpecTasks == TasksInit /\ [][TasksNext]_vars

\* C30 (as claimed): every started task has a status entry of its own, and an
\* entry that has reached "complete" or "error" is never changed again,
\* neither back to "running" nor to the data of another task.
C30_TaskEntriesIsolated ==
    [][ /\ \A n, m \in DOMAIN run'.threads :
               n # m => run'.threads[n].task_id # run'.threads[m].task_id
        /\ \A tid \in DOMAIN run.background_tasks :
               run.background_tasks[tid].status \in {"complete", "error"}
                   => run'.background_tasks[tid] = run.background_tasks[tid]
      ]_vars

====
